---- MODULE Spec2Model ----
(***************************************************************************)
(* A model of rollkit: the range literal enumeration of src/src/ast.rs,    *)
(* the tree-walking evaluator of src/src/eval.rs and the operator          *)
(* precedence parser of src/src/parser.rs.                                 *)
(*                                                                         *)
(* i64 is modelled as a two's complement integer of Bits bits; every       *)
(* wrapping operation is reduced modulo 2^Bits into [IntMin, IntMax].      *)
(***************************************************************************)
EXTENDS Integers, Sequences, FiniteSets, TLC

VARIABLES
    phase,            \* "idle" | "iter" | "done": position of RangeLiteral::to_vec
    range,            \* the RangeLiteral being enumerated (to_vec's self)
    it_next,          \* iter::successors' pending item: None or Some(value)
    out,              \* the Vec that collect() has built so far
    overflow_checks,  \* the build: TRUE with overflow checks (debug), FALSE without
    pc,               \* "idle" | "eval" | "done": position of eval_with
    expr,             \* the Expr handed to eval_with
    todo,             \* the visitor's pending work, innermost first (the call stack)
    vals,             \* the InnerValues of the children already visited
    draws,            \* every use of the random source so far, in order
    result,           \* how eval_with ended
    last,             \* the operator dispatched last: its operands and its outcome
    ppc,              \* "idle" | "run" | "done": position of parse
    pinput,           \* the input handed to parse, as tokens
    ptoks,            \* the input not yet consumed
    pstack,           \* the pending calls of the parser, innermost last
    presult,          \* what parse returned
    perrs,            \* the errors emitted so far and not dropped by backtracking
    pbraces           \* every brace list validated so far: its inner expressions,
                      \* its node and what it emitted

rvars == <<phase, range, it_next, out>>
evars == <<overflow_checks, pc, expr, todo, vals, draws, result, last>>
pvars == <<ppc, pinput, ptoks, pstack, presult, perrs, pbraces>>
vars == <<rvars, evars, pvars>>

----------------------------------------------------------------------------
(* The integer type *)

\* Width of the integer type (i64 in the source, scaled down).
Bits == 6

Modulus == 2 ^ Bits
IntMin == -(2 ^ (Bits - 1))
IntMax == (2 ^ (Bits - 1)) - 1
Int64 == IntMin .. IntMax

\* Option<T>: None is the empty sequence, Some(v) the one-element sequence.
None == <<>>
Some(v) == <<v>>

\* Reduction of a mathematical integer into the two's complement range.
Wrap(x) == ((x - IntMin) % Modulus) + IntMin

\* i64::saturating_add, which wrapping_add is not.
saturating_add(a, b) ==
    IF a + b > IntMax THEN IntMax ELSE IF a + b < IntMin THEN IntMin ELSE a + b

wrapping_add(a, b) == Wrap(a + b)
wrapping_sub(a, b) == Wrap(a - b)
wrapping_mul(a, b) == Wrap(a * b)
wrapping_neg(a) == Wrap(0 - a)
wrapping_abs(a) == IF a < 0 THEN wrapping_neg(a) ELSE a

----------------------------------------------------------------------------
(* RangeLiteral (src/src/ast.rs) *)

RangeLiteral(s, e, st) == [start |-> s, end |-> e, step |-> st]

\* to_iter, line 41: the direction of the range.
RangeInc(r) == r.end >= r.start

\* to_iter, lines 42-43: the magnitude of the step with the direction's sign.
RangeStep(r) ==
    LET step == IF r.step = None THEN 1 ELSE wrapping_abs(r.step[1])
    IN IF RangeInc(r) THEN step ELSE wrapping_neg(step)

\* to_iter, lines 45-53: the closure handed to iter::successors.
RangeSuccessor(r, cur) ==
    LET inc == RangeInc(r)
        next == wrapping_add(cur, RangeStep(r))
    IN IF (inc /\ (next > r.end \/ next < cur)) \/ (~inc /\ (next < r.end \/ next > cur))
       THEN None
       ELSE Some(next)

\* An iterator over Bits-bit integers that has yielded more than 2^Bits values
\* has repeated one, and RangeSuccessor is a function of the last value alone:
\* it repeats for ever. The model follows an enumeration no further than this.
YieldCap == Modulus + 1

\* Option<i64>: every step a RangeLiteral can carry.
Steps == {None} \cup { Some(v) : v \in Int64 }

NoRange == RangeLiteral(0, 0, None)

\* RangeLiteral::to_vec is called: to_iter builds successors(Some(start), ..).
to_vec(r) ==
    /\ phase = "idle"
    /\ phase' = "iter"
    /\ range' = r
    /\ it_next' = Some(r.start)
    /\ out' = <<>>
    /\ UNCHANGED <<evars, pvars>>

\* collect() pulls one item: Successors::next yields the pending item and
\* computes the one after it.
iter_next ==
    /\ phase = "iter"
    /\ it_next # None
    /\ Len(out) < YieldCap
    /\ out' = Append(out, it_next[1])
    /\ it_next' = RangeSuccessor(range, it_next[1])
    /\ UNCHANGED <<phase, range>>
    /\ UNCHANGED <<evars, pvars>>

\* The iterator is exhausted: collect() returns the Vec.
iter_end ==
    /\ phase = "iter"
    /\ it_next = None
    /\ phase' = "done"
    /\ UNCHANGED <<range, it_next, out>>
    /\ UNCHANGED <<evars, pvars>>


----------------------------------------------------------------------------
(* The range as the evaluator consumes it (to_iter().sum(), to_iter().collect()) *)

\* The values to_iter yields from cur on, followed for at most fuel items.
RECURSIVE RangeWalk(_, _, _)
RangeWalk(r, cur, fuel) ==
    IF fuel = 0 THEN <<>>
    ELSE LET nxt == RangeSuccessor(r, cur)
         IN IF nxt = None THEN <<cur>>
            ELSE <<cur>> \o RangeWalk(r, nxt[1], fuel - 1)

\* to_iter never returns None: whoever drains it (sum, collect) never returns.
RangeDiverges(r) == Len(RangeWalk(r, r.start, YieldCap)) >= YieldCap

\* RangeLiteral::to_vec of a range whose enumeration ends.
RangeVec(r) == RangeWalk(r, r.start, YieldCap)

----------------------------------------------------------------------------
(* The AST (src/src/ast.rs) *)

DiceOps == {"DiceRoll"}
KeepDropOps == {"KeepHighest", "KeepLowest", "DropHighest", "DropLowest"}
ArithOps == {"Multiplication", "Addition", "Subtraction"}
CmpOps == {"Equal", "NotEqual", "LessThan", "LessEqual", "GreaterThan", "GreaterEqual"}
ArithCmpOps == ArithOps \cup CmpOps
BinaryOperator == DiceOps \cup KeepDropOps \cup ArithCmpOps

\* Expr::Literal(Literal::Int), Expr::Literal(Literal::List), Expr::Literal(Literal::Range)
LitInt(n) == [kind |-> "Int", n |-> n]
LitList(lst) == [kind |-> "List", items |-> lst]
LitRange(r) == [kind |-> "Range", range |-> r]
BinaryOp(l, op, r) == [kind |-> "BinaryOp", left |-> l, op |-> op, right |-> r]
FunctionCall(name, args) == [kind |-> "FunctionCall", name |-> name, args |-> args]
StrongList(e) == [kind |-> "StrongList", inner |-> e]

\* The brace atom of the parser: what the validate closure makes of the parsed
\* inner expressions (the grammar error of the third branch is not kept here).
brace_list(exprs) ==
    IF exprs # <<>> /\ \A i \in DOMAIN exprs : exprs[i].kind = "Int"
    THEN LitList([i \in DOMAIN exprs |-> exprs[i].n])
    ELSE IF Len(exprs) = 1 THEN StrongList(exprs[1])
    ELSE LitList(<<>>)

----------------------------------------------------------------------------
(* Values and errors (src/src/eval.rs) *)

\* Value
ValueInteger(i) == [kind |-> "Integer", i |-> i]
ValueList(vec) == [kind |-> "List", vec |-> vec]

\* ListInner
InnerVec(vec) == [kind |-> "List", vec |-> vec]
InnerRange(r) == [kind |-> "Range", range |-> r]

\* InnerValue
Integer(i) == [kind |-> "Integer", i |-> i]
List(strong, inner) == [kind |-> "List", strong |-> strong, inner |-> inner]

\* EvalError
IntegerExpected == [err |-> "IntegerExpected"]
ListExpected == [err |-> "ListExpected"]
KeepTooMany(a, r) == [err |-> "KeepTooMany", available |-> a, requested |-> r]
DropTooMany(a, r) == [err |-> "DropTooMany", available |-> a, requested |-> r]
KeepTooLess(r) == [err |-> "KeepTooLess", requested |-> r]
DropTooLess(r) == [err |-> "DropTooLess", requested |-> r]
ListMismatch(l, r) == [err |-> "ListMismatch", left_len |-> l, right_len |-> r]
EvalErrorNames ==
    {"IntegerExpected", "ListExpected", "KeepTooMany", "DropTooMany",
     "KeepTooLess", "DropTooLess", "ListMismatch"}

\* How a call ends: it returns Ok or Err, it panics (the thread unwinds out of
\* eval_with), or it never returns.
Ok(v) == [kind |-> "Ok", v |-> v]
Err(e) == [kind |-> "Err", e |-> e]
Panic == [kind |-> "Panic"]
Diverge == [kind |-> "Diverge"]

\* ListInner::into_vec / clone_vec, and whether the call returns at all.
IntoVecDiverges(inner) == inner.kind = "Range" /\ RangeDiverges(inner.range)
into_vec(inner) == IF inner.kind = "List" THEN inner.vec ELSE RangeVec(inner.range)

\* The mathematical sum of a sequence.
RECURSIVE MathSum(_)
MathSum(seq) == IF seq = <<>> THEN 0 ELSE seq[1] + MathSum(Tail(seq))

\* Iterator::sum folds with `+` from the left: with overflow checks compiled in
\* (debug profile) the first partial sum outside i64 panics, without them
\* (release profile) every addition wraps.
SumOverflows(seq) == \E k \in 1 .. Len(seq) : MathSum(SubSeq(seq, 1, k)) \notin Int64

\* ListInner::sum. Over a range that never ends (it yields start for ever) the
\* partial sums of a non-zero start leave i64 after finitely many additions,
\* which panics with overflow checks; otherwise the fold never returns.
ListInnerSum(inner, checks) ==
    IF IntoVecDiverges(inner)
    THEN IF checks /\ inner.range.start # 0 THEN Panic ELSE Diverge
    ELSE IF checks /\ SumOverflows(into_vec(inner)) THEN Panic
    ELSE Ok(Wrap(MathSum(into_vec(inner))))

\* try_into_integer had it handed every list back as a list, weak or strong.
try_into_integer_no_sum(v, checks) ==
    IF v.kind = "Integer" THEN Ok(Ok(v.i)) ELSE Ok(Err(v.inner))

\* InnerValue::try_into_integer: Ok(Ok(i)) for Result::Ok(i), Ok(Err(inner)) for
\* Result::Err(inner); Panic or Diverge when the sum does not return.
try_into_integer(v, checks) ==
    IF v.kind = "Integer" THEN Ok(Ok(v.i))
    ELSE IF ~v.strong
         THEN LET s == ListInnerSum(v.inner, checks)
              IN IF s.kind = "Ok" THEN Ok(Ok(s.v)) ELSE s
         ELSE Ok(Err(v.inner))

\* InnerValue::into_public
into_public(v) ==
    IF v.kind = "Integer" THEN Ok(ValueInteger(v.i))
    ELSE IF IntoVecDiverges(v.inner) THEN Diverge
    ELSE Ok(ValueList(into_vec(v.inner)))

\* The fn(i64, i64) -> i64 that visit_binary_op hands to eval_arith_cmp_op.
bi_cmp_op(b) == IF b THEN 1 ELSE 0
ApplyOp(op, a, b) ==
    CASE op = "Multiplication" -> wrapping_mul(a, b)
      [] op = "Addition" -> wrapping_add(a, b)
      [] op = "Subtraction" -> wrapping_sub(a, b)
      [] op = "Equal" -> bi_cmp_op(a = b)
      [] op = "NotEqual" -> bi_cmp_op(a # b)
      [] op = "LessThan" -> bi_cmp_op(a < b)
      [] op = "LessEqual" -> bi_cmp_op(a <= b)
      [] op = "GreaterThan" -> bi_cmp_op(a > b)
      [] op = "GreaterEqual" -> bi_cmp_op(a >= b)

----------------------------------------------------------------------------
(* eval_arith_cmp_op *)

\* Line 385: both operands reduced to integers.
ArithScalar(l, r, op) == Ok(Integer(ApplyOp(op, l, r)))

\* Lines 386-395 had they applied op(element, scalar) as lines 396-405 do.
ArithBroadcastLeftSwapped(l, list, op) ==
    IF IntoVecDiverges(list) THEN Diverge
    ELSE LET vec == into_vec(list)
         IN Ok(List(TRUE, InnerVec([i \in DOMAIN vec |-> ApplyOp(op, vec[i], l)])))

\* Lines 386-395: an integer on the left, a strong list on the right.
ArithBroadcastLeft(l, list, op) ==
    IF IntoVecDiverges(list) THEN Diverge
    ELSE LET vec == into_vec(list)
         IN Ok(List(TRUE, InnerVec([i \in DOMAIN vec |-> ApplyOp(op, l, vec[i])])))

\* Lines 396-405: a strong list on the left, an integer on the right.
ArithBroadcastRight(list, r, op) ==
    IF IntoVecDiverges(list) THEN Diverge
    ELSE LET vec == into_vec(list)
         IN Ok(List(TRUE, InnerVec([i \in DOMAIN vec |-> ApplyOp(op, vec[i], r)])))

\* Lines 406-422 had the error carried the right length first.
ArithZipSwappedLengths(list, rlist, op) ==
    IF IntoVecDiverges(list) \/ IntoVecDiverges(rlist) THEN Diverge
    ELSE LET lvec == into_vec(list)
             rvec == into_vec(rlist)
         IN IF Len(lvec) # Len(rvec)
            THEN Err(ListMismatch(Len(rvec), Len(lvec)))
            ELSE Ok(List(TRUE, InnerVec([i \in DOMAIN lvec |-> ApplyOp(op, lvec[i], rvec[i])])))

\* Lines 406-422: two strong lists.
ArithZip(list, rlist, op) ==
    IF IntoVecDiverges(list) \/ IntoVecDiverges(rlist) THEN Diverge
    ELSE LET lvec == into_vec(list)
             rvec == into_vec(rlist)
         IN IF Len(lvec) # Len(rvec)
            THEN Err(ListMismatch(Len(lvec), Len(rvec)))
            ELSE Ok(List(TRUE, InnerVec([i \in DOMAIN lvec |-> ApplyOp(op, lvec[i], rvec[i])])))

eval_arith_cmp_op(left, right, op, checks) ==
    LET l == try_into_integer(left, checks)
        r == try_into_integer(right, checks)
    IN IF l.kind # "Ok" THEN l
       ELSE IF r.kind # "Ok" THEN r
       ELSE IF l.v.kind = "Ok" /\ r.v.kind = "Ok" THEN ArithScalar(l.v.v, r.v.v, op)
       ELSE IF l.v.kind = "Ok" THEN ArithBroadcastLeft(l.v.v, r.v.e, op)
       ELSE IF r.v.kind = "Ok" THEN ArithBroadcastRight(l.v.e, r.v.v, op)
       ELSE ArithZip(l.v.e, r.v.e, op)

----------------------------------------------------------------------------
(* eval_keep_drop_op *)

\* Lines 340-360 had the upper check been `requested >= available`.
KeepDropCountErrorOffByOne(keep, requested, available) ==
    IF requested < 0
    THEN Some(IF keep THEN KeepTooLess(requested) ELSE DropTooLess(requested))
    ELSE IF requested >= available
    THEN Some(IF keep THEN KeepTooMany(available, requested)
                      ELSE DropTooMany(available, requested))
    ELSE None

\* Lines 340-360: the count checks; None when the count is accepted.
KeepDropCountError(keep, requested, available) ==
    IF requested < 0
    THEN Some(IF keep THEN KeepTooLess(requested) ELSE DropTooLess(requested))
    ELSE IF requested > available
    THEN Some(IF keep THEN KeepTooMany(available, requested)
                      ELSE DropTooMany(available, requested))
    ELSE None

\* Line 362 had the sort orders been exchanged.
KeepDropAscendingSwapped(keep, highest) == keep = highest

\* Line 362: keep ^ highest sorts ascending, otherwise descending.
KeepDropAscending(keep, highest) == keep # highest

\* Lines 364-368 had the Vec not been truncated before the shuffle.
KeepDropRetainedAll(keep, requested, available) == available

\* Lines 364-368: the length the sorted Vec is truncated to.
KeepDropRetained(keep, requested, available) ==
    IF keep THEN requested ELSE available - requested

\* Lines 362-368: sort and truncate.
KeepDropSelect(vec, requested, keep, highest) ==
    LET sorted == IF KeepDropAscending(keep, highest)
                  THEN SortSeq(vec, LAMBDA a, b : a < b)
                  ELSE SortSeq(vec, LAMBDA a, b : a > b)
    IN SubSeq(sorted, 1, KeepDropRetained(keep, requested, Len(vec)))

\* Lines 335-368 had the result always been weak.
KeepDropBeforeShuffleWeak(left, right, keep, highest) ==
    IF left.kind # "List" THEN Err(ListExpected)
    ELSE IF IntoVecDiverges(left.inner) THEN Diverge
    ELSE IF right.kind # "Integer" THEN Err(IntegerExpected)
    ELSE LET vec == into_vec(left.inner)
             cnt == KeepDropCountError(keep, right.i, Len(vec))
         IN IF cnt # None THEN Err(cnt[1])
            ELSE Ok(List(FALSE, InnerVec(KeepDropSelect(vec, right.i, keep, highest))))

\* Lines 335-368: everything before the shuffle; Ok carries the strength and
\* the sorted, truncated Vec.
KeepDropBeforeShuffle(left, right, keep, highest) ==
    IF left.kind # "List" THEN Err(ListExpected)
    ELSE IF IntoVecDiverges(left.inner) THEN Diverge
    ELSE IF right.kind # "Integer" THEN Err(IntegerExpected)
    ELSE LET vec == into_vec(left.inner)
             cnt == KeepDropCountError(keep, right.i, Len(vec))
         IN IF cnt # None THEN Err(cnt[1])
            ELSE Ok(List(left.strong, InnerVec(KeepDropSelect(vec, right.i, keep, highest))))

\* Lines 474-477 had dh been dispatched with highest = false.
IsHighestOnlyKeep(op) == op = "KeepHighest"

\* Lines 474-477: the (keep, highest) flags of each operator.
IsKeep(op) == op \in {"KeepHighest", "KeepLowest"}
IsHighest(op) == op \in {"KeepHighest", "DropHighest"}

----------------------------------------------------------------------------
(* Dice roll: visit_binary_op and ListInner::sample *)

\* Lines 460-467: the face list of a roll.
DiceSides(right) ==
    IF right.kind = "Integer" THEN InnerRange(RangeLiteral(1, right.i, None))
    ELSE right.inner

\* Line 183: a range sampled straight from its bounds.
UnitStep(r) == r.step = None \/ wrapping_abs(r.step[1]) = 1

\* Line 191: a range with another step is collected before any sampling.
SampleDiverges(inner) ==
    inner.kind = "Range" /\ ~UnitStep(inner.range) /\ RangeDiverges(inner.range)

\* Lines 181, 184-192: the values one call of the sampler can return.
SampleFaces(inner) ==
    IF inner.kind = "List" THEN { inner.vec[i] : i \in DOMAIN inner.vec }
    ELSE IF UnitStep(inner.range)
    THEN IF inner.range.end >= inner.range.start
         THEN inner.range.start .. inner.range.end
         ELSE inner.range.end .. inner.range.start
    ELSE { RangeVec(inner.range)[i] : i \in DOMAIN RangeVec(inner.range) }

\* Line 197: (0..count) is empty for a count below 1.
SampleCount(count) == IF count > 0 THEN count ELSE 0

\* Line 181: choose() of an empty Vec is None, and unwrap() panics.
SamplePanics(inner, count) ==
    inner.kind = "List" /\ inner.vec = <<>> /\ SampleCount(count) > 0

----------------------------------------------------------------------------
(* The expressions handed to eval_with *)

\* The most dice one roll of the model samples.
MaxDice == 4

SmallInts == -1 .. MaxDice
ListLits == {<<1, 2>>, <<1, 2, 3>>, <<4, 5, 6>>, <<5>>, <<2, 1, 2>>, <<IntMax, 1>>}
RangeLits ==
    {RangeLiteral(1, 3, None), RangeLiteral(3, 1, None),
     RangeLiteral(1, 5, Some(2)), RangeLiteral(5, 1, Some(2)),
     RangeLiteral(2, 1, Some(-1)), RangeLiteral(1, 5, Some(0)),
     RangeLiteral(IntMax - 1, IntMax, None)}

Atoms ==
    { LitInt(n) : n \in SmallInts } \cup { LitList(l) : l \in ListLits }
        \cup { LitRange(r) : r \in RangeLits }
        \cup { FunctionCall("max", <<LitInt(3)>>) }

\* One operator over two atoms, and one pair of braces around an atom.
AtomOps == { BinaryOp(a, op, b) : a \in Atoms, op \in BinaryOperator, b \in Atoms }
AtomBraces == { brace_list(<<a>>) : a \in Atoms }

Roll(c, f) == BinaryOp(LitInt(c), "DiceRoll", f)
Rolls == { Roll(0, LitInt(3)), Roll(2, LitInt(2)), Roll(2, LitInt(3)) }

\* What stands on either side of an arithmetic or comparison operator.
Operands ==
    { LitInt(1), LitInt(3), LitList(<<1, 2>>), LitRange(RangeLiteral(1, 5, Some(0))) }
        \cup Rolls
        \cup { brace_list(<<e>>) : e \in Rolls }
        \cup { brace_list(<<LitList(l)>>) : l \in {<<1, 2>>, <<1, 2, 3>>, <<4, 5, 6>>} }
        \cup { brace_list(<<LitRange(RangeLiteral(1, 3, None))>>),
               brace_list(<<LitRange(RangeLiteral(1, 5, Some(0)))>>),
               brace_list(<<BinaryOp(LitInt(1), "Addition", LitInt(2))>>) }
ArithExprs == { BinaryOp(x, op, y) : x \in Operands, op \in ArithCmpOps, y \in Operands }

\* Keep and drop over rolled lists.
KeepDropExprs ==
    { BinaryOp(d, op, LitInt(n)) :
        d \in { Roll(3, LitInt(3)), Roll(2, LitList(<<4, 5, 6>>)),
                brace_list(<<Roll(2, LitInt(3))>>) },
        op \in KeepDropOps, n \in 0 .. 3 }

\* A roll whose faces are what a keep or drop left.
KeptFaceExprs ==
    { Roll(c, BinaryOp(LitList(<<1, 2>>), op, LitInt(n))) :
        c \in {0, 2}, op \in {"KeepHighest", "DropLowest"}, n \in 0 .. 2 }

\* Arithmetic at the ends of the integer type.
EdgeInts == {IntMin, IntMin + 1, -1, 2, IntMax}
EdgeExprs == { BinaryOp(LitInt(a), op, LitInt(b)) : a \in EdgeInts, op \in ArithCmpOps, b \in EdgeInts }

\* Broadcast and zip at the ends of the integer type.
EdgeOperands ==
    { LitInt(IntMax), LitInt(IntMin),
      StrongList(LitList(<<IntMax, IntMin>>)), StrongList(LitList(<<2, -1>>)) }
EdgeListExprs == { BinaryOp(x, op, y) : x \in EdgeOperands, op \in ArithOps, y \in EdgeOperands }

\* Operands that fail, roll or neither, on either side of an operator.
FailTooMany == BinaryOp(LitList(<<1, 2>>), "KeepHighest", LitInt(5))
FailListExpected == BinaryOp(LitInt(3), "KeepLowest", LitInt(1))
FailOperands == {FailTooMany, FailListExpected, Roll(2, LitInt(2)), LitInt(3), LitList(<<1, 2>>)}
FailFastExprs ==
    { BinaryOp(x, op, y) :
        x \in FailOperands, op \in {"Addition", "KeepHighest", "DiceRoll"}, y \in FailOperands }
        \cup { BinaryOp(BinaryOp(FailTooMany, "Addition", Roll(2, LitInt(3))),
                        "Multiplication", Roll(2, LitInt(2))),
               BinaryOp(BinaryOp(Roll(2, LitInt(3)), "Addition", FailTooMany),
                        "Multiplication", Roll(2, LitInt(2))) }

\* The expressions the documentation names.
Ex_4d6kh3 == BinaryOp(Roll(4, LitInt(6)), "KeepHighest", LitInt(3))
Ex_3d6 == Roll(3, LitInt(6))
Ex_2d6_plus_3 == BinaryOp(Roll(2, LitInt(6)), "Addition", LitInt(3))
Ex_strong_2d6_plus_1 == BinaryOp(brace_list(<<Roll(2, LitInt(6))>>), "Addition", LitInt(1))
Ex_max_3d6 == FunctionCall("max", <<Roll(3, LitInt(6))>>)
Ex_list_plus_list ==
    BinaryOp(brace_list(<<LitInt(1), LitInt(2), LitInt(3)>>), "Addition",
             brace_list(<<LitInt(4), LitInt(5), LitInt(6)>>))
Ex_list_plus_longer ==
    BinaryOp(brace_list(<<LitInt(1), LitInt(2)>>), "Addition",
             brace_list(<<LitInt(1), LitInt(2), LitInt(3)>>))
Ex_strong_plus_strong ==
    BinaryOp(brace_list(<<brace_list(<<LitInt(1), LitInt(2), LitInt(3)>>)>>), "Addition",
             brace_list(<<brace_list(<<LitInt(4), LitInt(5), LitInt(6)>>)>>))
Ex_strong_plus_longer ==
    BinaryOp(brace_list(<<brace_list(<<LitInt(1), LitInt(2)>>)>>), "Addition",
             brace_list(<<brace_list(<<LitInt(1), LitInt(2), LitInt(3)>>)>>))
Ex_kh_minus_1 == BinaryOp(brace_list(<<LitInt(1), LitInt(2), LitInt(3)>>), "KeepHighest", LitInt(-1))
Ex_kh_5 == BinaryOp(brace_list(<<LitInt(1), LitInt(2), LitInt(3)>>), "KeepHighest", LitInt(5))
Ex_roll_of_nothing ==
    Roll(2, BinaryOp(brace_list(<<LitInt(1), LitInt(2)>>), "KeepHighest", LitInt(0)))
Ex_brace_5_plus_1 == BinaryOp(brace_list(<<LitInt(5)>>), "Addition", LitInt(1))
Ex_strong_5_plus_1 == BinaryOp(StrongList(LitInt(5)), "Addition", LitInt(1))
Ex_list_plus_1 ==
    BinaryOp(brace_list(<<LitInt(1), LitInt(2), LitInt(3)>>), "Addition", LitInt(1))
Ex_range_plus_1 ==
    BinaryOp(LitRange(RangeLiteral(1, 5, Some(2))), "Addition", LitInt(1))
Ex_kh_plus_1 ==
    BinaryOp(BinaryOp(Roll(2, LitInt(6)), "KeepHighest", LitInt(1)), "Addition", LitInt(1))
Ex_strong_kh_plus_1 ==
    BinaryOp(BinaryOp(brace_list(<<Roll(2, LitInt(6))>>), "KeepHighest", LitInt(1)),
             "Addition", LitInt(1))
Examples ==
    {Ex_4d6kh3, Ex_3d6, Ex_2d6_plus_3, Ex_strong_2d6_plus_1, Ex_max_3d6,
     Ex_list_plus_list, Ex_list_plus_longer, Ex_strong_plus_strong,
     Ex_strong_plus_longer, Ex_kh_minus_1, Ex_kh_5, Ex_roll_of_nothing,
     Ex_brace_5_plus_1, Ex_strong_5_plus_1, Ex_list_plus_1, Ex_range_plus_1,
     Ex_kh_plus_1, Ex_strong_kh_plus_1}

Exprs ==
    Atoms \cup AtomOps \cup AtomBraces \cup ArithExprs \cup KeepDropExprs
        \cup KeptFaceExprs \cup EdgeExprs \cup EdgeListExprs \cup FailFastExprs
        \cup Examples

----------------------------------------------------------------------------
(* The evaluator: EvalVisitor over an Expr *)

NoExpr == LitInt(0)
NoResult == [kind |-> "None"]
NoLast == [op |-> "none"]

Visit(e, at) == [f |-> "visit", e |-> e, at |-> at]
Dispatch(op, at) == [f |-> "binary", op |-> op, at |-> at]
Wrapping(at) == [f |-> "strong", at |-> at]

\* A use of the random source that leaves no trace of what was drawn, as a
\* source outside the one passed in would.
DrawAmbient(at, kind, v) == [at |-> at, kind |-> kind, v |-> <<>>]

\* One use of the random source: by the node at path `at` of the tree, a
\* sample (the face drawn) or a shuffle (the permutation drawn).
Draw(at, kind, v) == [at |-> at, kind |-> kind, v |-> v]

\* eval_with unwinds: `?` on an Err, a panic, or a call that never returns.
Unwind(outcome) ==
    /\ pc' = "done"
    /\ result' = outcome
    /\ todo' = <<>>
    /\ vals' = <<>>

Top == vals[Len(vals)]
Second == vals[Len(vals) - 1]
Pop2Push(v) == SubSeq(vals, 1, Len(vals) - 2) \o <<v>>

\* eval_with(expr, rng): line 519-520, the visitor is made and visits the root.
eval_with(e) ==
    /\ pc = "idle"
    /\ pc' = "eval"
    /\ expr' = e
    /\ todo' = <<Visit(e, <<>>)>>
    /\ UNCHANGED <<overflow_checks, vals, draws, result, last>>
    /\ UNCHANGED <<rvars, pvars>>

\* visit_literal had a list literal of several integers been marked strong.
LiteralValueStrongBraces(lit) ==
    CASE lit.kind = "Int" -> Integer(lit.n)
      [] lit.kind = "List" -> List(Len(lit.items) > 1, InnerVec(lit.items))
      [] lit.kind = "Range" -> List(FALSE, InnerRange(lit.range))

\* visit_literal had a range literal been marked strong.
LiteralValueStrongRange(lit) ==
    CASE lit.kind = "Int" -> Integer(lit.n)
      [] lit.kind = "List" -> List(FALSE, InnerVec(lit.items))
      [] lit.kind = "Range" -> List(TRUE, InnerRange(lit.range))

\* visit_literal, lines 440-450: the InnerValue of a literal.
LiteralValue(lit) ==
    CASE lit.kind = "Int" -> Integer(lit.n)
      [] lit.kind = "List" -> List(FALSE, InnerVec(lit.items))
      [] lit.kind = "Range" -> List(FALSE, InnerRange(lit.range))

\* visit_literal
visit_literal ==
    /\ pc = "eval" /\ todo # <<>> /\ Head(todo).f = "visit"
    /\ Head(todo).e.kind \in {"Int", "List", "Range"}
    /\ vals' = Append(vals, LiteralValue(Head(todo).e))
    /\ todo' = Tail(todo)
    /\ UNCHANGED <<overflow_checks, pc, expr, draws, result, last>>
    /\ UNCHANGED <<rvars, pvars>>

\* visit_binary_op had it visited the right child before the left one.
BinaryOpFramesRightFirst(e, at) ==
    <<Visit(e.right, Append(at, 1)), Visit(e.left, Append(at, 0)), Dispatch(e.op, at)>>

\* visit_binary_op, lines 454-456: the left child, then the right child, then
\* the match on the operator.
BinaryOpFrames(e, at) ==
    <<Visit(e.left, Append(at, 0)), Visit(e.right, Append(at, 1)), Dispatch(e.op, at)>>

\* visit_binary_op, lines 454-455.
visit_binary_op ==
    /\ pc = "eval" /\ todo # <<>> /\ Head(todo).f = "visit"
    /\ Head(todo).e.kind = "BinaryOp"
    /\ todo' = BinaryOpFrames(Head(todo).e, Head(todo).at) \o Tail(todo)
    /\ UNCHANGED <<overflow_checks, pc, expr, vals, draws, result, last>>
    /\ UNCHANGED <<rvars, pvars>>

\* visit_function_call: todo!() panics.
visit_function_call ==
    /\ pc = "eval" /\ todo # <<>> /\ Head(todo).f = "visit"
    /\ Head(todo).e.kind = "FunctionCall"
    /\ Unwind(Panic)
    /\ UNCHANGED <<overflow_checks, expr, draws, last>>
    /\ UNCHANGED <<rvars, pvars>>

\* visit_strong_list, line 499: the inner expression is visited first.
visit_strong_list ==
    /\ pc = "eval" /\ todo # <<>> /\ Head(todo).f = "visit"
    /\ Head(todo).e.kind = "StrongList"
    /\ LET at == Head(todo).at
       IN todo' = <<Visit(Head(todo).e.inner, Append(at, 0)), Wrapping(at)>> \o Tail(todo)
    /\ UNCHANGED <<overflow_checks, pc, expr, vals, draws, result, last>>
    /\ UNCHANGED <<rvars, pvars>>

\* visit_strong_list had the list of one integer been marked strong as well.
StrongListValueAlwaysStrong(v) ==
    IF v.kind = "Integer" THEN List(TRUE, InnerVec(<<v.i>>))
    ELSE List(TRUE, v.inner)

\* visit_strong_list, lines 499-508: the inner value is wrapped.
StrongListValue(v) ==
    IF v.kind = "Integer" THEN List(FALSE, InnerVec(<<v.i>>))
    ELSE List(TRUE, v.inner)

strong_list_wrap ==
    /\ pc = "eval" /\ todo # <<>> /\ Head(todo).f = "strong"
    /\ vals' = SubSeq(vals, 1, Len(vals) - 1) \o <<StrongListValue(Top)>>
    /\ todo' = Tail(todo)
    /\ UNCHANGED <<overflow_checks, pc, expr, draws, result, last>>
    /\ UNCHANGED <<rvars, pvars>>

Dispatched(op, at, left, right, outcome) ==
    [op |-> op, at |-> at, left |-> left, right |-> right, out |-> outcome]

\* visit_binary_op, lines 458-473: BinaryOperator::DiceRoll.
dice_roll ==
    /\ pc = "eval" /\ todo # <<>> /\ Head(todo).f = "binary"
    /\ Head(todo).op = "DiceRoll"
    /\ LET left == Second
           right == Top
           at == Head(todo).at
           sides == DiceSides(right)
       IN IF left.kind # "Integer"
          THEN /\ Unwind(Err(IntegerExpected))
               /\ last' = Dispatched("DiceRoll", at, left, right, Err(IntegerExpected))
               /\ UNCHANGED draws
          ELSE IF SampleDiverges(sides)
          THEN /\ Unwind(Diverge)
               /\ last' = Dispatched("DiceRoll", at, left, right, Diverge)
               /\ UNCHANGED draws
          ELSE IF SamplePanics(sides, left.i)
          THEN /\ Unwind(Panic)
               /\ last' = Dispatched("DiceRoll", at, left, right, Panic)
               /\ UNCHANGED draws
          ELSE /\ SampleCount(left.i) <= MaxDice
               /\ \E s \in [1 .. SampleCount(left.i) -> SampleFaces(sides)] :
                     /\ vals' = Pop2Push(List(FALSE, InnerVec(s)))
                     /\ draws' = draws \o [i \in DOMAIN s |-> Draw(at, "sample", <<s[i]>>)]
                     /\ last' = Dispatched("DiceRoll", at, left, right,
                                           Ok(List(FALSE, InnerVec(s))))
               /\ todo' = Tail(todo)
               /\ UNCHANGED <<pc, result>>
    /\ UNCHANGED <<overflow_checks, expr>>
    /\ UNCHANGED <<rvars, pvars>>

\* visit_binary_op, lines 474-477, and eval_keep_drop_op with its shuffle.
keep_drop ==
    /\ pc = "eval" /\ todo # <<>> /\ Head(todo).f = "binary"
    /\ Head(todo).op \in KeepDropOps
    /\ LET op == Head(todo).op
           left == Second
           right == Top
           at == Head(todo).at
           sel == KeepDropBeforeShuffle(left, right, IsKeep(op), IsHighest(op))
       IN IF sel.kind # "Ok"
          THEN /\ Unwind(sel)
               /\ last' = Dispatched(op, at, left, right, sel)
               /\ UNCHANGED draws
          ELSE LET vec == sel.v.inner.vec
               IN \E perm \in Permutations(DOMAIN vec) :
                     LET shuffled == List(sel.v.strong,
                                          InnerVec([i \in DOMAIN vec |-> vec[perm[i]]]))
                     IN /\ vals' = Pop2Push(shuffled)
                        /\ draws' = Append(draws, Draw(at, "shuffle", perm))
                        /\ last' = Dispatched(op, at, left, right, Ok(shuffled))
                        /\ todo' = Tail(todo)
                        /\ UNCHANGED <<pc, result>>
    /\ UNCHANGED <<overflow_checks, expr>>
    /\ UNCHANGED <<rvars, pvars>>

\* visit_binary_op, lines 478-486, and eval_arith_cmp_op.
arith_cmp ==
    /\ pc = "eval" /\ todo # <<>> /\ Head(todo).f = "binary"
    /\ Head(todo).op \in ArithCmpOps
    /\ LET op == Head(todo).op
           left == Second
           right == Top
           res == eval_arith_cmp_op(left, right, op, overflow_checks)
       IN /\ last' = Dispatched(op, Head(todo).at, left, right, res)
          /\ IF res.kind # "Ok"
             THEN Unwind(res)
             ELSE /\ vals' = Pop2Push(res.v)
                  /\ todo' = Tail(todo)
                  /\ UNCHANGED <<pc, result>>
    /\ UNCHANGED <<overflow_checks, expr, draws>>
    /\ UNCHANGED <<rvars, pvars>>

\* eval_with, line 520: the root's value is made public and returned.
eval_return ==
    /\ pc = "eval" /\ todo = <<>>
    /\ pc' = "done"
    /\ result' = into_public(vals[1])
    /\ vals' = <<>>
    /\ UNCHANGED <<overflow_checks, expr, todo, draws, last>>
    /\ UNCHANGED <<rvars, pvars>>

----------------------------------------------------------------------------
(* The evaluator as a function of the Expr and of the draws of the random source *)

Stuck == [kind |-> "Stuck"]
Replayed(outcome, rest) == [out |-> outcome, rest |-> rest]
IsSample(d) == d.kind = "sample" /\ Len(d.v) = 1
IsShuffle(d, n) == d.kind = "shuffle" /\ d.v \in Permutations(1 .. n)

\* visit_binary_op, lines 457-487, with the draws read from `tape`.
ReplayOp(op, left, right, tape, checks) ==
    IF op = "DiceRoll"
    THEN IF left.kind # "Integer" THEN Replayed(Err(IntegerExpected), tape)
         ELSE IF SampleDiverges(DiceSides(right)) THEN Replayed(Diverge, tape)
         ELSE IF SamplePanics(DiceSides(right), left.i) THEN Replayed(Panic, tape)
         ELSE LET n == SampleCount(left.i)
              IN IF Len(tape) < n \/ \E i \in 1 .. n : ~IsSample(tape[i])
                 THEN Replayed(Stuck, tape)
                 ELSE Replayed(Ok(List(FALSE, InnerVec([i \in 1 .. n |-> tape[i].v[1]]))),
                               SubSeq(tape, n + 1, Len(tape)))
    ELSE IF op \in KeepDropOps
    THEN LET sel == KeepDropBeforeShuffle(left, right, IsKeep(op), IsHighest(op))
         IN IF sel.kind # "Ok" THEN Replayed(sel, tape)
            ELSE LET vec == sel.v.inner.vec
                 IN IF tape = <<>> \/ ~IsShuffle(tape[1], Len(vec))
                    THEN Replayed(Stuck, tape)
                    ELSE Replayed(Ok(List(sel.v.strong,
                                          InnerVec([i \in DOMAIN vec |-> vec[tape[1].v[i]]]))),
                                  Tail(tape))
    ELSE Replayed(eval_arith_cmp_op(left, right, op, checks), tape)

\* ExprVisitor::visit_expr of EvalVisitor, with `?` on every child.
RECURSIVE Replay(_, _, _)
Replay(e, tape, checks) ==
    CASE e.kind \in {"Int", "List", "Range"} -> Replayed(Ok(LiteralValue(e)), tape)
      [] e.kind = "FunctionCall" -> Replayed(Panic, tape)
      [] e.kind = "StrongList" ->
            LET r == Replay(e.inner, tape, checks)
            IN IF r.out.kind # "Ok" THEN r
               ELSE Replayed(Ok(StrongListValue(r.out.v)), r.rest)
      [] e.kind = "BinaryOp" ->
            LET l == Replay(e.left, tape, checks)
            IN IF l.out.kind # "Ok" THEN l
               ELSE LET r == Replay(e.right, l.rest, checks)
                    IN IF r.out.kind # "Ok" THEN r
                       ELSE ReplayOp(e.op, l.out.v, r.out.v, r.rest, checks)

\* eval_with: the root's value made public, and the draws left unread.
EvalReplay(e, tape, checks) ==
    LET r == Replay(e, tape, checks)
    IN Replayed(IF r.out.kind = "Ok" THEN into_public(r.out.v) ELSE r.out, r.rest)

EvalIdle ==
    /\ pc = "idle"
    /\ expr = NoExpr
    /\ todo = <<>>
    /\ vals = <<>>
    /\ draws = <<>>
    /\ result = NoResult
    /\ last = NoLast

RangeIdle ==
    /\ phase = "idle"
    /\ range = NoRange
    /\ it_next = None
    /\ out = <<>>

ParseIdle ==
    /\ ppc = "idle"
    /\ pinput = [atoms |-> <<>>, paren |-> FALSE, ops |-> <<>>, toks |-> <<>>]
    /\ ptoks = <<>>
    /\ pstack = <<>>
    /\ presult = NoResult
    /\ perrs = <<>>
    /\ pbraces = <<>>

Init ==
    /\ overflow_checks \in BOOLEAN
    /\ EvalIdle
    /\ RangeIdle
    /\ ParseIdle

Next ==
    \/ pc = "idle" /\ \E e \in Exprs : eval_with(e)
    \/ visit_literal
    \/ visit_binary_op
    \/ visit_function_call
    \/ visit_strong_list
    \/ strong_list_wrap
    \/ dice_roll
    \/ keep_drop
    \/ arith_cmp
    \/ eval_return

Spec == Init /\ [][Next]_vars

----------------------------------------------------------------------------
(* The range enumeration on its own *)

RangeInit ==
    /\ overflow_checks = FALSE
    /\ EvalIdle
    /\ RangeIdle
    /\ ParseIdle

RangeNext ==
    \/ phase = "idle" /\ \E s \in Int64, e \in Int64, st \in Steps :
                             to_vec(RangeLiteral(s, e, st))
    \/ iter_next
    \/ iter_end

SpecRange == RangeInit /\ [][RangeNext]_vars

----------------------------------------------------------------------------
(* The parser (src/src/parser.rs): atoms joined by the infix operators of the
   Pratt table; integer literals, range lists, brace lists, function calls and
   parentheses; the errors emitted and dropped. *)

\* The most operators one input of the model holds.
MaxOps == 2

\* BinaryOperator::precedence
precedence(op) ==
    CASE op = "DiceRoll" -> 150
      [] op \in KeepDropOps -> 130
      [] op = "Multiplication" -> 90
      [] op \in {"Addition", "Subtraction"} -> 70
      [] op \in CmpOps -> 50

\* BinaryOperator::to_str
to_str(op) ==
    CASE op = "DiceRoll" -> "d"
      [] op = "KeepHighest" -> "kh"
      [] op = "KeepLowest" -> "kl"
      [] op = "DropHighest" -> "dh"
      [] op = "DropLowest" -> "dl"
      [] op = "Multiplication" -> "*"
      [] op = "Addition" -> "+"
      [] op = "Subtraction" -> "-"
      [] op = "Equal" -> "=="
      [] op = "NotEqual" -> "!="
      [] op = "LessThan" -> "<"
      [] op = "LessEqual" -> "<="
      [] op = "GreaterThan" -> ">"
      [] op = "GreaterEqual" -> ">="

\* The operators in the order of the tuple handed to pratt().
PrattTable ==
    <<"DiceRoll", "KeepHighest", "KeepLowest", "DropHighest", "DropLowest",
      "Multiplication", "Addition", "Subtraction", "Equal", "NotEqual",
      "LessThan", "LessEqual", "GreaterThan", "GreaterEqual">>

\* The table: `right` for the dice roll, `left` for the rest.
associativity(op) == IF op = "DiceRoll" THEN "right" ELSE "left"

\* The binding powers of infix(left(p), ..) and infix(right(p), ..): an
\* operator continues an expression when its left power is at least the
\* power the expression was called with, and calls for its right operand
\* with its right power.
left_power(op) ==
    IF associativity(op) = "left" THEN 2 * precedence(op) ELSE 2 * precedence(op) + 1
right_power(op) ==
    IF associativity(op) = "left" THEN 2 * precedence(op) + 1 ELSE 2 * precedence(op)

\* The text of an operator, character by character.
OpChars(op) ==
    CASE op = "DiceRoll" -> <<"d">>
      [] op = "KeepHighest" -> <<"k", "h">>
      [] op = "KeepLowest" -> <<"k", "l">>
      [] op = "DropHighest" -> <<"d", "h">>
      [] op = "DropLowest" -> <<"d", "l">>
      [] op = "Multiplication" -> <<"*">>
      [] op = "Addition" -> <<"+">>
      [] op = "Subtraction" -> <<"-">>
      [] op = "Equal" -> <<"=", "=">>
      [] op = "NotEqual" -> <<"!", "=">>
      [] op = "LessThan" -> <<"<">>
      [] op = "LessEqual" -> <<"<", "=">>
      [] op = "GreaterThan" -> <<">">>
      [] op = "GreaterEqual" -> <<">", "=">>
Letters == {"d", "k", "h", "l"}

\* The input as the parser reads it: a run of decimal digits, or one other
\* character: a letter, a character of an operator, a bracket or a comma.
\* White space is left out: a minus sign before the number of a literal stands
\* next to it, and a name is separated from a number that follows it.
LitTok(digits) == [t |-> "lit", digits |-> digits]
ChTok(c) == [t |-> "ch", c |-> c]
RECURSIVE Digits(_)
Digits(n) == IF n < 10 THEN <<n>> ELSE Digits(n \div 10) \o <<n % 10>>
IntTok(n) == IF n < 0 THEN <<ChTok("-"), LitTok(Digits(0 - n))>> ELSE <<LitTok(Digits(n))>>
Chars(cs) == [i \in DOMAIN cs |-> ChTok(cs[i])]

\* An input: its text, and for the inputs a1 op1 a2 op2 ... their atoms,
\* whether they are written in parentheses, and their operators. One atom
\* fewer than usual is an input that stops after an operator, as "1+".
RECURSIVE Text(_, _, _)
Text(atoms, paren, ops) ==
    IF atoms = <<>> THEN <<>>
    ELSE (IF paren THEN Chars(<<"(">>) \o IntTok(atoms[1]) \o Chars(<<")">>)
                   ELSE IntTok(atoms[1]))
            \o (IF ops = <<>> THEN <<>>
                ELSE Chars(OpChars(ops[1])) \o Text(Tail(atoms), paren, Tail(ops)))
ParseInput(atoms, paren, ops) ==
    [atoms |-> atoms, paren |-> paren, ops |-> ops, toks |-> Text(atoms, paren, ops)]
TextInput(toks) == [atoms |-> <<>>, paren |-> FALSE, ops |-> <<>>, toks |-> toks]
In_2d6_plus_3 == ParseInput(<<2, 6, 3>>, FALSE, <<"DiceRoll", "Addition">>)

OperatorInputs ==
    { ParseInput([i \in 1 .. Len(ops) + 1 - cut |-> i], paren, ops) :
        cut \in {0, 1}, paren \in BOOLEAN,
        ops \in UNION { [1 .. m -> BinaryOperator] : m \in 0 .. MaxOps } }
      \cup {In_2d6_plus_3}

\* One integer literal: an optional minus sign and up to MaxDigits digits.
MaxDigits == 2
DigitStrings == UNION { [1 .. n -> 0 .. 9] : n \in 1 .. MaxDigits }
LiteralInputs ==
    { TextInput(<<LitTok(ds)>>) : ds \in DigitStrings }
        \cup { TextInput(<<ChTok("-"), LitTok(ds)>>) : ds \in DigitStrings }

\* Well-formed texts whose literals are drawn from a literal in range and two
\* out of range: the examples of src/examples/test_overflow.rs and the other
\* places of the grammar that hold a literal.
SlotLiterals == {<<LitTok(<<5>>)>>, <<LitTok(<<9, 9>>)>>, <<ChTok("-"), LitTok(<<9, 9>>)>>}
OverflowInputs ==
    UNION { { TextInput(a \o Chars(<<"+">>) \o b),
              TextInput(a \o Chars(<<"d">>) \o b \o Chars(<<"k", "h">>) \o c),
              TextInput(a \o Chars(<<"d", "h">>) \o b),
              TextInput(Chars(<<"{">>) \o a \o Chars(<<",">>) \o b \o Chars(<<"}">>)),
              TextInput(Chars(<<"{">>) \o a \o Chars(<<"d">>) \o b \o Chars(<<"}">>)),
              TextInput(Chars(<<"[">>) \o a \o Chars(<<",">>) \o b \o Chars(<<"]">>)),
              TextInput(Chars(<<"[">>) \o a \o Chars(<<",">>) \o b \o Chars(<<",">>) \o c
                            \o Chars(<<"]">>)),
              TextInput(Chars(<<"h", "(">>) \o a \o Chars(<<",">>) \o b \o Chars(<<")">>)),
              TextInput(Chars(<<"(">>) \o a \o Chars(<<")", "*">>) \o b) } :
            a \in SlotLiterals, b \in SlotLiterals, c \in SlotLiterals }

\* Brace lists of up to MaxItems inner expressions, with or without a trailing
\* comma: {}, {5}, {5, 7}, {1d6}, {(5)}, {1d6, 5}, {{}}, {{5}}, ...
MaxItems == 2
BraceItems ==
    { IntTok(5), IntTok(7), IntTok(-1),
      IntTok(1) \o Chars(<<"d">>) \o IntTok(6),
      Chars(<<"(">>) \o IntTok(5) \o Chars(<<")">>),
      Chars(<<"{", "}">>),
      Chars(<<"{">>) \o IntTok(5) \o Chars(<<"}">>) }
RECURSIVE Separated(_)
Separated(items) ==
    IF items = <<>> THEN <<>>
    ELSE IF Len(items) = 1 THEN items[1]
    ELSE items[1] \o Chars(<<",">>) \o Separated(Tail(items))
BraceInputs ==
    { TextInput(Chars(<<"{">>) \o Separated(items)
                    \o (IF trailing THEN Chars(<<",">>) ELSE <<>>) \o Chars(<<"}">>)) :
        trailing \in BOOLEAN,
        items \in UNION { [1 .. n -> BraceItems] : n \in 0 .. MaxItems } }

\* Texts that are not expressions, or go on after one.
MalformedInputs ==
    { TextInput(toks) : toks \in
        { IntTok(1) \o Chars(<<"+">>),
          IntTok(1) \o IntTok(2),
          IntTok(1) \o Chars(<<")">>),
          IntTok(1) \o Chars(<<"+", "*">>) \o IntTok(2),
          Chars(<<"(">>) \o IntTok(1),
          Chars(<<"(", ")">>),
          Chars(<<"{">>) \o IntTok(1),
          Chars(<<"{">>) \o IntTok(1) \o Chars(<<",", ",", "}">>),
          Chars(<<"{", ",", "}">>),
          Chars(<<"h">>) \o IntTok(1),
          Chars(<<"h", "(">>) \o IntTok(1),
          Chars(<<"[">>) \o IntTok(1) \o Chars(<<"]">>),
          Chars(<<"[">>) \o IntTok(1) \o Chars(<<",">>) \o IntTok(2),
          Chars(<<"(">>) \o <<LitTok(<<9, 9>>)>>,
          IntTok(1) \o Chars(<<"+", "(">>) \o <<LitTok(<<9, 9>>)>>,
          <<LitTok(<<9, 9>>)>> \o Chars(<<"+">>),
          IntTok(1) \o Chars(<<"d", "h", "{", "}">>),
          IntTok(1) \o Chars(<<"+", "{", "}", ")">>) } }

\* Texts with a function call: zero arguments, several, a trailing comma.
CallInputs ==
    { TextInput(toks) : toks \in
        { Chars(<<"h", "(", ")">>),
          Chars(<<"h", "(">>) \o IntTok(1) \o Chars(<<",", ")">>),
          Chars(<<"k", "h", "(">>) \o IntTok(1) \o Chars(<<",">>) \o IntTok(2) \o Chars(<<")">>),
          IntTok(3) \o Chars(<<"*", "h", "(">>) \o IntTok(1) \o Chars(<<"d">>) \o IntTok(6)
                \o Chars(<<")">>) } }

ParseInputs ==
    OperatorInputs \cup LiteralInputs \cup OverflowInputs \cup BraceInputs
        \cup MalformedInputs \cup CallInputs

\* Where the text toks, a tail of the input, starts: the number of its token.
Pos(toks) == Len(pinput.toks) - Len(toks) + 1

\* The errors of the parser, Rich::custom at a span and the error of a parser
\* that found something else than it expected.
IllegalInteger(span) == [kind |-> "illegal integer literal", at |-> span]
BraceContents(at) == [kind |-> "things inside braces", at |-> at]
Unexpected == [kind |-> "unexpected"]

IsCh(toks, c) == IF toks = <<>> THEN FALSE ELSE Head(toks) = ChTok(c)
IsLit(toks) == IF toks = <<>> THEN FALSE ELSE Head(toks).t = "lit"

\* text::int(10) had it accepted any run of digits.
IntLenAnyDigits(digits) == Len(digits)

\* text::int(10): the digits it takes of a run of digits: all of them when the
\* first is not zero, else the zero alone.
IntLen(digits) == IF digits[1] = 0 THEN 1 ELSE Len(digits)

RECURSIVE DigitsValue(_)
DigitsValue(ds) ==
    IF ds = <<>> THEN 0
    ELSE 10 * DigitsValue(SubSeq(ds, 1, Len(ds) - 1)) + ds[Len(ds)]

\* str::parse::<i64> of an optional sign and digits: the value, or an error
\* when it is not an i64.
ParseI64(neg, digits) ==
    LET v == IF neg THEN 0 - DigitsValue(digits) ELSE DigitsValue(digits)
    IN IF v \in Int64 THEN Ok(v) ELSE Err("number too large or too small to fit in target type")

\* integer_parser had it emitted nothing for a literal that is not an i64.
EmittedNothing(parsed, span) == <<>>

\* Lines 53-59: what validate emits for the outcome of str::parse, at the span
\* of the literal.
Emitted(parsed, span) == IF parsed.kind = "Ok" THEN <<>> ELSE <<IllegalInteger(span)>>

\* integer_parser at the head of toks: None when no literal starts there, else
\* its value (0 in place of a value that is not an i64), the text left and the
\* errors emitted.
integer_parser(toks) ==
    LET neg == IsCh(toks, "-")
        body == IF neg THEN Tail(toks) ELSE toks
    IN IF ~IsLit(body) THEN None
       ELSE LET ds == Head(body).digits
                n == IntLen(ds)
                parsed == ParseI64(neg, SubSeq(ds, 1, n))
            IN Some([v |-> IF parsed.kind = "Ok" THEN parsed.v ELSE 0,
                     rest |-> (IF n < Len(ds) THEN <<LitTok(SubSeq(ds, n + 1, Len(ds)))>>
                                              ELSE <<>>) \o Tail(body),
                     errs |-> Emitted(parsed, <<Pos(toks), Pos(body)>>)])

\* range_list_parser at the head of toks: [start, end] or [start, end, step].
range_list_parser(toks) ==
    LET start == IF IsCh(toks, "[") THEN integer_parser(Tail(toks)) ELSE None
        end == IF start = None THEN None
               ELSE IF IsCh(start[1].rest, ",") THEN integer_parser(Tail(start[1].rest))
               ELSE None
        step == IF end = None THEN None
                ELSE IF IsCh(end[1].rest, ",") THEN integer_parser(Tail(end[1].rest))
                ELSE None
        rest == IF end = None THEN <<>>
                ELSE IF step = None THEN end[1].rest ELSE step[1].rest
    IN IF end = None \/ ~IsCh(rest, "]") THEN None
       ELSE Some([e |-> LitRange(RangeLiteral(start[1].v, end[1].v,
                                              IF step = None THEN None ELSE Some(step[1].v))),
                  rest |-> Tail(rest),
                  errs |-> start[1].errs \o end[1].errs
                              \o (IF step = None THEN <<>> ELSE step[1].errs)])

\* text::ascii::ident: the letters an identifier at the head of toks is made of.
RECURSIVE IdentLen(_)
IdentLen(toks) ==
    IF toks = <<>> THEN 0
    ELSE IF Head(toks).t = "ch" /\ Head(toks).c \in Letters THEN 1 + IdentLen(Tail(toks))
    ELSE 0
RECURSIVE IdentName(_)
IdentName(chs) == IF chs = <<>> THEN "" ELSE Head(chs).c \o IdentName(Tail(chs))

\* The alternative of choice() that the head of toks starts: a function call
\* (an identifier, then an opening parenthesis), a range list, a brace list, an
\* integer, a parenthesized expression, or none.
AtomKind(toks) ==
    LET n == IdentLen(toks)
    IN IF n > 0
       THEN (IF IsCh(SubSeq(toks, n + 1, Len(toks)), "(") THEN "call" ELSE "none")
       ELSE IF IsCh(toks, "[") THEN "range"
       ELSE IF IsCh(toks, "{") THEN "brace"
       ELSE IF integer_parser(toks) # None THEN "integer"
       ELSE IF IsCh(toks, "(") THEN "paren"
       ELSE "none"

\* The atoms that hold no expression: a range list or an integer. None when
\* there is none, else the atom, the text left and the errors emitted.
ParseAtom(toks) ==
    IF AtomKind(toks) = "range" THEN range_list_parser(toks)
    ELSE IF AtomKind(toks) = "integer"
    THEN LET i == integer_parser(toks)[1]
         IN Some([e |-> LitInt(i.v), rest |-> i.rest, errs |-> i.errs])
    ELSE None

\* One call of the Pratt parser: the power it was called with, the text and
\* the number of errors it started with, the left operand built so far, the
\* operator whose right operand is being parsed, the text as it stood before
\* that operator, and how many operators of the table this turn of its loop
\* has tried.
PrattCall(min, start, mark) ==
    [f |-> "pratt", min |-> min, start |-> start, mark |-> mark,
     lhs |-> None, op |-> None, before |-> <<>>, tried |-> 0]

\* An atom that holds expressions, being parsed: a function call, a brace list
\* or a parenthesized expression; where it starts, the expressions parsed so
\* far, and whether a separator or the closing bracket is what comes next.
Group(kind, name, at) ==
    [f |-> "group", kind |-> kind, name |-> name, at |-> at, items |-> <<>>, sep |-> FALSE]
Closer(kind) == IF kind = "brace" THEN "}" ELSE ")"

PTop == pstack[Len(pstack)]
PBelow == pstack[Len(pstack) - 1]
PReplaceTop(f) == SubSeq(pstack, 1, Len(pstack) - 1) \o <<f>>
TopIs(f) == IF pstack = <<>> THEN FALSE ELSE PTop.f = f
BelowIs(f) == IF Len(pstack) < 2 THEN FALSE ELSE PBelow.f = f

\* just(op.to_str()): the text of the operator starts the input.
OpMatches(op, toks) ==
    /\ Len(toks) >= Len(OpChars(op))
    /\ \A i \in DOMAIN OpChars(op) : toks[i] = ChTok(OpChars(op)[i])

\* The operators of the table, after the first `tried`, that this call may
\* take: strong enough, and their text is next in the input.
PrattCandidates(call, toks) ==
    { k \in call.tried + 1 .. Len(PrattTable) :
        left_power(PrattTable[k]) >= call.min /\ OpMatches(PrattTable[k], toks) }
\* The operators are tried in the order of the table.
PrattChoice(call, toks) ==
    LET ks == PrattCandidates(call, toks)
    IN CHOOSE k \in ks : \A j \in ks : k <= j

\* Lines 113-139 had a single integer in braces made a strong list.
brace_node_single_strong(exprs) ==
    IF Len(exprs) = 1 THEN StrongList(exprs[1]) ELSE brace_list(exprs)

\* Lines 113-139: the node of a brace list.
brace_node(exprs) == brace_list(exprs)

\* Lines 127-136: what validate emits for a brace list.
brace_emitted(exprs, at) ==
    IF exprs # <<>> /\ \A i \in DOMAIN exprs : exprs[i].kind = "Int" THEN <<>>
    ELSE IF Len(exprs) = 1 THEN <<>>
    ELSE <<BraceContents(at)>>

\* ParseResult::into_result had it returned the output whenever there is one.
into_result_lenient(output, errs) == IF output # None THEN Ok(output[1]) ELSE Err(errs)

\* ParseResult::into_result: the output when no error was reported, else the
\* errors.
into_result(output, errs) ==
    IF errs = <<>> /\ output # None THEN Ok(output[1]) ELSE Err(errs)

\* parse(input): the expression parser is called with power 0.
parse(input) ==
    /\ ppc = "idle"
    /\ ppc' = "run"
    /\ pinput' = input
    /\ ptoks' = input.toks
    /\ pstack' = <<PrattCall(0, input.toks, 0)>>
    /\ UNCHANGED <<presult, perrs, pbraces>>
    /\ UNCHANGED <<rvars, evars>>

\* The atom that an expression starts with, when it is an integer or a range
\* list: its errors are emitted.
pratt_atom ==
    /\ ppc = "run" /\ TopIs("pratt") /\ PTop.lhs = None
    /\ ParseAtom(ptoks) # None
    /\ pstack' = PReplaceTop([PTop EXCEPT !.lhs = Some(ParseAtom(ptoks)[1].e)])
    /\ ptoks' = ParseAtom(ptoks)[1].rest
    /\ perrs' = perrs \o ParseAtom(ptoks)[1].errs
    /\ UNCHANGED <<ppc, pinput, presult, pbraces>>
    /\ UNCHANGED <<rvars, evars>>

\* The atom that an expression starts with, when it is a function call, a brace
\* list or a parenthesized expression: the name and the opening bracket are
\* consumed and the first expression inside is called for.
pratt_open ==
    /\ ppc = "run" /\ TopIs("pratt") /\ PTop.lhs = None
    /\ AtomKind(ptoks) \in {"call", "brace", "paren"}
    /\ LET kind == AtomKind(ptoks)
           n == IdentLen(ptoks)
           rest == SubSeq(ptoks, n + 2, Len(ptoks))
       IN /\ pstack' = pstack \o <<Group(kind, IdentName(SubSeq(ptoks, 1, n)), Pos(ptoks)),
                                   PrattCall(0, rest, Len(perrs))>>
          /\ ptoks' = rest
    /\ UNCHANGED <<ppc, pinput, presult, perrs, pbraces>>
    /\ UNCHANGED <<rvars, evars>>

\* No atom where one must be: the call fails.
pratt_no_atom ==
    /\ ppc = "run" /\ TopIs("pratt") /\ PTop.lhs = None
    /\ AtomKind(ptoks) \in {"range", "integer", "none"}
    /\ ParseAtom(ptoks) = None
    /\ ppc' = "fail"
    /\ UNCHANGED <<pinput, ptoks, pstack, presult, perrs, pbraces>>
    /\ UNCHANGED <<rvars, evars>>

\* The first operator of the table that applies is consumed and its right
\* operand is parsed with its right power.
pratt_infix ==
    /\ ppc = "run" /\ TopIs("pratt") /\ PTop.lhs # None
    /\ PrattCandidates(PTop, ptoks) # {}
    /\ LET k == PrattChoice(PTop, ptoks)
           op == PrattTable[k]
           rest == SubSeq(ptoks, Len(OpChars(op)) + 1, Len(ptoks))
       IN /\ pstack' = PReplaceTop([PTop EXCEPT !.op = Some(op), !.before = ptoks,
                                                !.tried = k])
                          \o <<PrattCall(right_power(op), rest, Len(perrs))>>
          /\ ptoks' = rest
    /\ UNCHANGED <<ppc, pinput, presult, perrs, pbraces>>
    /\ UNCHANGED <<rvars, evars>>

\* No operator continues the expression.
PrattLoopOver == PrattCandidates(PTop, ptoks) = {}

\* The call returns its expression as the right operand of its caller, which
\* folds it into Expr::BinaryOp and starts its loop again.
pratt_return ==
    /\ ppc = "run" /\ TopIs("pratt") /\ PTop.lhs # None /\ PrattLoopOver
    /\ BelowIs("pratt")
    /\ pstack' = SubSeq(pstack, 1, Len(pstack) - 2)
                    \o <<[PBelow EXCEPT
                            !.lhs = Some(BinaryOp(PBelow.lhs[1], PBelow.op[1], PTop.lhs[1])),
                            !.op = None, !.tried = 0]>>
    /\ UNCHANGED <<ppc, pinput, ptoks, presult, perrs, pbraces>>
    /\ UNCHANGED <<rvars, evars>>

\* The call returns its expression to the function call, brace list or
\* parenthesis it stands in.
item_return ==
    /\ ppc = "run" /\ TopIs("pratt") /\ PTop.lhs # None /\ PrattLoopOver
    /\ BelowIs("group")
    /\ pstack' = SubSeq(pstack, 1, Len(pstack) - 2)
                    \o <<[PBelow EXCEPT !.items = Append(@, PTop.lhs[1]), !.sep = TRUE]>>
    /\ UNCHANGED <<ppc, pinput, ptoks, presult, perrs, pbraces>>
    /\ UNCHANGED <<rvars, evars>>

\* separated_by(just(',')): after an expression of a function call or a brace
\* list, a comma is consumed and the next expression is called for.
group_comma ==
    /\ ppc = "run" /\ TopIs("group")
    /\ PTop.kind \in {"call", "brace"} /\ PTop.sep /\ IsCh(ptoks, ",")
    /\ pstack' = PReplaceTop([PTop EXCEPT !.sep = FALSE])
                    \o <<PrattCall(0, Tail(ptoks), Len(perrs))>>
    /\ ptoks' = Tail(ptoks)
    /\ UNCHANGED <<ppc, pinput, presult, perrs, pbraces>>
    /\ UNCHANGED <<rvars, evars>>

\* The closing bracket: the atom is built and is the left operand of the call
\* it started. A brace list is validated, and what it emits is recorded.
group_close ==
    /\ ppc = "run" /\ TopIs("group")
    /\ ~(PTop.kind \in {"call", "brace"} /\ PTop.sep /\ IsCh(ptoks, ","))
    /\ IsCh(ptoks, Closer(PTop.kind))
    /\ LET g == PTop
           node == CASE g.kind = "paren" -> g.items[1]
                     [] g.kind = "call" -> FunctionCall(g.name, g.items)
                     [] g.kind = "brace" -> brace_node(g.items)
           emitted == IF g.kind = "brace" THEN brace_emitted(g.items, g.at) ELSE <<>>
       IN /\ pstack' = SubSeq(pstack, 1, Len(pstack) - 2)
                          \o <<[PBelow EXCEPT !.lhs = Some(node)]>>
          /\ perrs' = perrs \o emitted
          /\ pbraces' = IF g.kind = "brace"
                        THEN Append(pbraces, [items |-> g.items, node |-> node,
                                              emitted |-> emitted, at |-> g.at])
                        ELSE pbraces
    /\ ptoks' = Tail(ptoks)
    /\ UNCHANGED <<ppc, pinput, presult>>
    /\ UNCHANGED <<rvars, evars>>

\* Neither a separator nor the closing bracket: the atom fails.
group_no_close ==
    /\ ppc = "run" /\ TopIs("group")
    /\ ~(PTop.kind \in {"call", "brace"} /\ PTop.sep /\ IsCh(ptoks, ","))
    /\ ~IsCh(ptoks, Closer(PTop.kind))
    /\ ppc' = "fail"
    /\ UNCHANGED <<pinput, ptoks, pstack, presult, perrs, pbraces>>
    /\ UNCHANGED <<rvars, evars>>

\* A right operand failed: the operator that called for it is given back to
\* the text, the errors emitted since are dropped, and the caller goes on with
\* the operators after it in the table.
pratt_backtrack ==
    /\ ppc = "fail" /\ TopIs("pratt") /\ BelowIs("pratt")
    /\ ppc' = "run"
    /\ pstack' = SubSeq(pstack, 1, Len(pstack) - 2) \o <<[PBelow EXCEPT !.op = None]>>
    /\ ptoks' = PBelow.before
    /\ perrs' = SubSeq(perrs, 1, PTop.mark)
    /\ UNCHANGED <<pinput, presult, pbraces>>
    /\ UNCHANGED <<rvars, evars>>

\* An expression inside brackets failed: the text and the errors are as they
\* were where it started. A function call or a brace list ends there
\* (separated_by, allow_trailing) and looks for its closing bracket; a
\* parenthesis fails.
item_fail ==
    /\ ppc = "fail" /\ TopIs("pratt") /\ BelowIs("group")
    /\ ppc' = IF PBelow.kind = "paren" THEN "fail" ELSE "run"
    /\ pstack' = SubSeq(pstack, 1, Len(pstack) - 1)
    /\ ptoks' = PTop.start
    /\ perrs' = SubSeq(perrs, 1, PTop.mark)
    /\ UNCHANGED <<pinput, presult, pbraces>>
    /\ UNCHANGED <<rvars, evars>>

\* An atom in brackets failed: so does the call of which it is the atom.
group_fail ==
    /\ ppc = "fail" /\ TopIs("group")
    /\ pstack' = SubSeq(pstack, 1, Len(pstack) - 1)
    /\ UNCHANGED <<ppc, pinput, ptoks, presult, perrs, pbraces>>
    /\ UNCHANGED <<rvars, evars>>

\* The outermost call failed: parse returns the error.
parse_fail ==
    /\ ppc = "fail" /\ TopIs("pratt") /\ Len(pstack) = 1
    /\ ppc' = "done"
    /\ presult' = into_result(None, SubSeq(perrs, 1, PTop.mark) \o <<Unexpected>>)
    /\ perrs' = SubSeq(perrs, 1, PTop.mark) \o <<Unexpected>>
    /\ pstack' = <<>>
    /\ UNCHANGED <<pinput, ptoks, pbraces>>
    /\ UNCHANGED <<rvars, evars>>

\* The outermost call returns: then_ignore(end()) asks for the end of input,
\* and parse returns the expression or the errors.
parse_end ==
    /\ ppc = "run" /\ TopIs("pratt") /\ PTop.lhs # None /\ PrattLoopOver
    /\ Len(pstack) = 1
    /\ ppc' = "done"
    /\ LET errs == IF ptoks = <<>> THEN perrs ELSE perrs \o <<Unexpected>>
       IN /\ presult' = into_result(IF ptoks = <<>> THEN PTop.lhs ELSE None, errs)
          /\ perrs' = errs
    /\ pstack' = <<>>
    /\ UNCHANGED <<pinput, ptoks, pbraces>>
    /\ UNCHANGED <<rvars, evars>>

ParseNext ==
    \/ ppc = "idle" /\ \E input \in ParseInputs : parse(input)
    \/ pratt_atom
    \/ pratt_open
    \/ pratt_no_atom
    \/ pratt_infix
    \/ pratt_return
    \/ item_return
    \/ group_comma
    \/ group_close
    \/ group_no_close
    \/ pratt_backtrack
    \/ item_fail
    \/ group_fail
    \/ parse_fail
    \/ parse_end

SpecParse == RangeInit /\ [][ParseNext]_vars

\* InlineFormatter (src/src/ast.rs)
RECURSIVE JoinInts(_)
JoinInts(seq) ==
    IF seq = <<>> THEN ""
    ELSE IF Len(seq) = 1 THEN ToString(seq[1])
    ELSE ToString(seq[1]) \o ", " \o JoinInts(Tail(seq))

RECURSIVE JoinStrings(_)
JoinStrings(seq) ==
    IF seq = <<>> THEN ""
    ELSE IF Len(seq) = 1 THEN seq[1]
    ELSE seq[1] \o ", " \o JoinStrings(Tail(seq))

RECURSIVE format_inline(_)
format_inline(e) ==
    CASE e.kind = "Int" -> ToString(e.n)
      [] e.kind = "List" -> "{" \o JoinInts(e.items) \o "}"
      [] e.kind = "Range" ->
            IF e.range.step # None
            THEN "[" \o JoinInts(<<e.range.start, e.range.end, e.range.step[1]>>) \o "]"
            ELSE "[" \o JoinInts(<<e.range.start, e.range.end>>) \o "]"
      [] e.kind = "BinaryOp" ->
            "(" \o format_inline(e.left) \o " " \o to_str(e.op) \o " "
                \o format_inline(e.right) \o ")"
      [] e.kind = "FunctionCall" ->
            e.name \o "(" \o JoinStrings([i \in DOMAIN e.args |-> format_inline(e.args[i])])
                   \o ")"
      [] e.kind = "StrongList" -> "{" \o format_inline(e.inner) \o "}"

----------------------------------------------------------------------------
(* Properties of the range enumeration *)

\* The magnitude of a step as a mathematical integer (1 when absent).
StepMagnitude(r) ==
    IF r.step = None THEN 1
    ELSE IF r.step[1] < 0 THEN 0 - r.step[1] ELSE r.step[1]

\* What the values collected so far must satisfy: the first is start, each is
\* between start and end, each consecutive pair moves strictly in the direction
\* of end - start by exactly the step's magnitude.
RangeSequenceOk(r, seq) ==
    /\ Len(seq) >= 1 => seq[1] = r.start
    /\ \A i \in 1 .. Len(seq) :
          IF r.end >= r.start THEN r.start <= seq[i] /\ seq[i] <= r.end
                              ELSE r.end <= seq[i] /\ seq[i] <= r.start
    /\ \A i \in 1 .. Len(seq) - 1 :
          /\ IF r.end >= r.start THEN seq[i + 1] > seq[i] ELSE seq[i + 1] < seq[i]
          /\ (IF r.end >= r.start THEN seq[i + 1] - seq[i] ELSE seq[i] - seq[i + 1])
                = StepMagnitude(r)

RangeExamplesOk ==
    phase = "done" =>
        /\ range = RangeLiteral(1, 5, Some(2)) => out = <<1, 3, 5>>
        /\ range = RangeLiteral(5, 1, Some(2)) => out = <<5, 3, 1>>
        /\ range = RangeLiteral(1, 5, None) => out = <<1, 2, 3, 4, 5>>

\* C2: for every RangeLiteral (step absent, positive, negative, zero or
\* IntMin) the sequence produced by to_iter/to_vec starts at start, is strictly
\* monotonic in the direction of end - start, stays between start and end, and
\* has every consecutive difference equal to |step| (1 when absent); the three
\* documented examples give [1,3,5], [5,3,1] and [1,2,3,4,5].
C2_RangeSequence ==
    /\ phase \in {"iter", "done"} => RangeSequenceOk(range, out)
    /\ RangeExamplesOk

\* The same statement for the ranges whose step is not Some(0).
RangeSequenceNonZeroStep ==
    /\ (phase \in {"iter", "done"} /\ range.step # Some(0)) => RangeSequenceOk(range, out)
    /\ RangeExamplesOk

\* A range with a non-zero step is enumerated to its end.
RangeNonZeroStepEnds ==
    (phase = "iter" /\ range.step # Some(0)) => Len(out) < YieldCap

\* C3: enumeration of a RangeLiteral always terminates: the iterator yields
\* finitely many values and then None. The iterator's whole state is its pending
\* item, so it terminates exactly when it never comes to yield a value it has
\* already yielded: a repeated value repeats the rest of the enumeration too.
C3_RangeTerminates ==
    phase = "iter" => \A i \in 1 .. Len(out) : it_next # Some(out[i])

----------------------------------------------------------------------------
(* Properties of the evaluator *)

Elems(seq) == { seq[i] : i \in DOMAIN seq }
Count(seq, v) == Cardinality({ i \in DOMAIN seq : seq[i] = v })
SubMultiset(a, b) == \A v \in Elems(a) : Count(a, v) <= Count(b, v)
\* The values of b that a, a sub-multiset of b, leaves out.
LeftOut(a, b) == { v \in Elems(b) : Count(b, v) > Count(a, v) }

IsList(v) == v.kind = "List"
IsStrong(v) == v.kind = "List" /\ v.strong
\* A list value that has a length: its enumeration ends.
HasLength(v) == v.kind = "List" /\ ~IntoVecDiverges(v.inner)
\* An operand that reduces to an integer: an Integer, or a weak list of finite
\* length whose sum the build can form.
Reduces(v) ==
    \/ v.kind = "Integer"
    \/ /\ v.kind = "List" /\ ~v.strong /\ ~IntoVecDiverges(v.inner)
       /\ ~(overflow_checks /\ SumOverflows(into_vec(v.inner)))
Reduced(v) ==
    IF v.kind = "Integer" THEN v.i ELSE Wrap(MathSum(into_vec(v.inner)))

\* What an operator is to compute from two integers.
Expected(op, a, b) ==
    CASE op = "Multiplication" -> Wrap(a * b)
      [] op = "Addition" -> Wrap(a + b)
      [] op = "Subtraction" -> Wrap(a - b)
      [] op = "Equal" -> IF a = b THEN 1 ELSE 0
      [] op = "NotEqual" -> IF a = b THEN 0 ELSE 1
      [] op = "LessThan" -> IF a < b THEN 1 ELSE 0
      [] op = "LessEqual" -> IF b < a THEN 0 ELSE 1
      [] op = "GreaterThan" -> IF b < a THEN 1 ELSE 0
      [] op = "GreaterEqual" -> IF a < b THEN 0 ELSE 1

\* C1 as the specification states it: a brace list literal of several integers
\* is a strong list in arithmetic, so {1,2,3} + {4,5,6} returns List([5,7,9])
\* and {1,2} + {1,2,3} fails with ListMismatch{left_len: 2, right_len: 3}.
C1_BraceLiteralStrong ==
    pc = "done" =>
        /\ expr = Ex_list_plus_list => result = Ok(ValueList(<<5, 7, 9>>))
        /\ expr = Ex_list_plus_longer => result = Err(ListMismatch(2, 3))

\* C1 amended: a brace list literal is a weak list in arithmetic, so
\* {1,2,3} + {4,5,6} returns Integer(21) and {1,2} + {1,2,3} returns Integer(9);
\* inside a further pair of braces the same lists are strong:
\* {{1,2,3}} + {{4,5,6}} returns List([5,7,9]) and {{1,2}} + {{1,2,3}} fails
\* with ListMismatch{left_len: 2, right_len: 3}.
C1_BraceLiteralWeak ==
    pc = "done" =>
        /\ expr = Ex_list_plus_list => result = Ok(ValueInteger(21))
        /\ expr = Ex_list_plus_longer => result = Ok(ValueInteger(9))
        /\ expr = Ex_strong_plus_strong => result = Ok(ValueList(<<5, 7, 9>>))
        /\ expr = Ex_strong_plus_longer => result = Err(ListMismatch(2, 3))

C1_Witness ==
    /\ pc = "done" /\ expr = Ex_list_plus_list
    /\ last.op = "Addition" /\ IsList(last.left) /\ IsList(last.right)
    /\ result.kind = "Ok"

\* C4: no evaluation panics: eval_with returns Ok(Value) or Err(EvalError) of
\* one of the seven variants, function calls and rolls of an empty face list
\* included.
C4_NoPanic ==
    pc = "done" =>
        /\ result.kind # "Panic"
        /\ result.kind = "Err" => result.e.err \in EvalErrorNames
        /\ expr = Ex_max_3d6 => result.kind \in {"Ok", "Err"}
        /\ expr = Ex_roll_of_nothing => result.kind \in {"Ok", "Err"}

\* The face set the specification gives a roll: 1..=N for the integer N, the
\* elements of the list for a list.
ClaimedFaces(right) ==
    IF right.kind = "Integer" THEN 1 .. right.i ELSE Elems(into_vec(right.inner))

\* C5: `left d right` with left the integer c returns a weak list of length
\* exactly c whose every element is a member of the face set. Stated for the
\* counts c >= 0, the only ones a length can equal, and for the face lists that
\* have elements to name (their enumeration ends).
C5_DiceRoll ==
    (/\ last.op = "DiceRoll" /\ last.left.kind = "Integer" /\ last.left.i >= 0
     /\ (last.right.kind = "Integer" \/ HasLength(last.right))) =>
        /\ last.out.kind = "Ok"
        /\ last.out.v.kind = "List" /\ ~last.out.v.strong
        /\ Len(into_vec(last.out.v.inner)) = last.left.i
        /\ Elems(into_vec(last.out.v.inner)) \subseteq ClaimedFaces(last.right)

\* The same for the rolls of at least one die from at least one face that the
\* sampler draws without collecting a range first, with the faces of the integer
\* N taken as the integers between 1 and N in either direction.
DiceRollWithinFaces ==
    (last.op = "DiceRoll" /\ last.left.kind = "Integer" /\ last.out.kind = "Ok") =>
        /\ last.out.v.kind = "List" /\ ~last.out.v.strong
        /\ Len(into_vec(last.out.v.inner)) = SampleCount(last.left.i)
        /\ Elems(into_vec(last.out.v.inner)) \subseteq
              (IF last.right.kind = "Integer"
               THEN (1 .. last.right.i) \cup (last.right.i .. 1)
               ELSE Elems(into_vec(last.right.inner)))

\* A keep or drop whose left operand is a list with a length and whose right
\* operand is an integer.
KeepDropOnList ==
    last.op \in KeepDropOps /\ HasLength(last.left) /\ last.right.kind = "Integer"
KeepDropInput == into_vec(last.left.inner)
KeepDropOutput == into_vec(last.out.v.inner)

\* C6: for a list of length len and a count n with 0 <= n <= len, kh and kl
\* return exactly n elements and dh and dl exactly len - n; the result is a
\* sub-multiset of the input, and nothing it leaves out is larger (kh, dl) or
\* smaller (kl, dh) than anything it holds, so it is the n largest, the n
\* smallest, the input minus its n smallest or the input minus its n largest.
\* 4d6kh3 returns 3 values that are a sub-multiset of the 4 rolled.
C6_KeepDrop ==
    /\ (KeepDropOnList /\ 0 <= last.right.i /\ last.right.i <= Len(KeepDropInput)) =>
          /\ last.out.kind = "Ok" /\ last.out.v.kind = "List"
          /\ Len(KeepDropOutput) =
                (IF IsKeep(last.op) THEN last.right.i
                 ELSE Len(KeepDropInput) - last.right.i)
          /\ SubMultiset(KeepDropOutput, KeepDropInput)
          /\ \A x \in LeftOut(KeepDropOutput, KeepDropInput), y \in Elems(KeepDropOutput) :
                IF last.op \in {"KeepHighest", "DropLowest"} THEN x <= y ELSE x >= y
    /\ (pc = "done" /\ expr = Ex_4d6kh3) =>
          /\ result.kind = "Ok" /\ result.v.kind = "List"
          /\ Len(result.v.vec) = 3
          /\ Len(KeepDropInput) = 4
          /\ SubMultiset(result.v.vec, KeepDropInput)

C6_Witness ==
    /\ pc = "done" /\ expr = Ex_4d6kh3
    /\ last.op = "KeepHighest" /\ last.out.kind = "Ok"
    /\ Cardinality(Elems(KeepDropInput)) = 4
    /\ result.kind = "Ok" /\ result.v.vec # SubSeq(SortSeq(KeepDropInput, LAMBDA a, b : a > b), 1, 3)

\* C7: for a list of length len and an integer count n, n < 0 fails with
\* KeepTooLess{n} (kh, kl) or DropTooLess{n} (dh, dl), n > len fails with
\* KeepTooMany{len, n} or DropTooMany{len, n}, and every n from 0 to len, both
\* ends included, is accepted; the error is what the evaluation returns.
\* {1,2,3} kh -1 gives KeepTooLess{-1} and {1,2,3} kh 5 gives KeepTooMany{3, 5}.
C7_KeepDropCountErrors ==
    /\ KeepDropOnList =>
          LET n == last.right.i
              len == Len(KeepDropInput)
          IN /\ n < 0 =>
                  /\ last.out = Err(IF IsKeep(last.op) THEN KeepTooLess(n) ELSE DropTooLess(n))
                  /\ pc = "done" /\ result = last.out
             /\ n > len =>
                  /\ last.out = Err(IF IsKeep(last.op) THEN KeepTooMany(len, n)
                                                       ELSE DropTooMany(len, n))
                  /\ pc = "done" /\ result = last.out
             /\ (0 <= n /\ n <= len) => last.out.kind = "Ok"
    /\ (pc = "done" /\ expr = Ex_kh_minus_1) => result = Err(KeepTooLess(-1))
    /\ (pc = "done" /\ expr = Ex_kh_5) => result = Err(KeepTooMany(3, 5))

C7_Witness ==
    /\ pc = "done" /\ KeepDropOnList
    /\ last.op \in {"DropHighest", "DropLowest"}
    /\ Len(KeepDropInput) = 3 /\ last.right.i = 4
    /\ result = Err(DropTooMany(3, 4))

\* The i-th elements of the lists that a broadcast and a zip are to return.
BroadcastLeft(op, s, vec) == [i \in DOMAIN vec |-> Expected(op, s, vec[i])]
BroadcastRight(op, vec, s) == [i \in DOMAIN vec |-> Expected(op, vec[i], s)]
Zipped(op, lvec, rvec) == [i \in DOMAIN lvec |-> Expected(op, lvec[i], rvec[i])]

\* C8: when one operand of +, -, * or a comparison reduces to the integer s and
\* the other is a strong list L, the result is a strong list of the length of L
\* whose i-th element is op(s, L[i]) with the scalar on the left and op(L[i], s)
\* with the scalar on the right; {2d6} + 1 returns a list of two elements.
C8_Broadcast ==
    /\ (last.op \in ArithCmpOps /\ Reduces(last.left)
            /\ IsStrong(last.right) /\ HasLength(last.right)) =>
          last.out = Ok(List(TRUE, InnerVec(
              BroadcastLeft(last.op, Reduced(last.left), into_vec(last.right.inner)))))
    /\ (last.op \in ArithCmpOps /\ Reduces(last.right)
            /\ IsStrong(last.left) /\ HasLength(last.left)) =>
          last.out = Ok(List(TRUE, InnerVec(
              BroadcastRight(last.op, into_vec(last.left.inner), Reduced(last.right)))))
    /\ (pc = "done" /\ expr = Ex_strong_2d6_plus_1) =>
          /\ result.kind = "Ok" /\ result.v.kind = "List"
          /\ Len(result.v.vec) = 2

C8_Witness ==
    /\ pc = "done" /\ last.op = "Subtraction"
    /\ last.left = Integer(3)
    /\ IsStrong(last.right) /\ HasLength(last.right)
    /\ result = Ok(ValueList(<<2, 1>>))

\* C9: when both operands of +, -, * or a comparison are strong lists, equal
\* lengths give a strong list whose i-th element is op(left[i], right[i]);
\* different lengths fail with ListMismatch carrying the left length first and
\* the right length second, and that error is all the evaluation returns.
C9_Zip ==
    (last.op \in ArithCmpOps /\ IsStrong(last.left) /\ HasLength(last.left)
        /\ IsStrong(last.right) /\ HasLength(last.right)) =>
        LET lvec == into_vec(last.left.inner)
            rvec == into_vec(last.right.inner)
        IN IF Len(lvec) = Len(rvec)
           THEN last.out = Ok(List(TRUE, InnerVec(Zipped(last.op, lvec, rvec))))
           ELSE /\ last.out = Err(ListMismatch(Len(lvec), Len(rvec)))
                /\ pc = "done" /\ result = last.out

C9_Witness ==
    /\ pc = "done" /\ last.op \in ArithCmpOps
    /\ IsStrong(last.left) /\ IsStrong(last.right)
    /\ Len(into_vec(last.left.inner)) = 2 /\ Len(into_vec(last.right.inner)) = 3
    /\ result = Err(ListMismatch(2, 3))

\* C10: when neither operand of +, -, *, ==, !=, <, <=, >, >= is a strong list,
\* each reduces to an integer (an Integer to itself, a weak list to the sum of
\* its elements) and the result is one Integer: the arithmetic result for
\* +, -, *, and 1 or 0 for a comparison. 2d6 + 3 is an Integer from 5 to 15.
C10_Scalar ==
    /\ (last.op \in ArithCmpOps /\ Reduces(last.left) /\ Reduces(last.right)) =>
          /\ last.out = Ok(Integer(Expected(last.op, Reduced(last.left), Reduced(last.right))))
          /\ last.op \in CmpOps => last.out.v.i \in {0, 1}
    /\ (pc = "done" /\ expr = Ex_2d6_plus_3) =>
          /\ result.kind = "Ok" /\ result.v.kind = "Integer"
          /\ result.v.i \in 5 .. 15

C10_Witness ==
    /\ pc = "done" /\ expr = Ex_2d6_plus_3
    /\ last.op = "Addition" /\ IsList(last.left) /\ ~IsStrong(last.left)
    /\ result = Ok(ValueInteger(15))

\* C11: StrongList(inner) evaluates to the weak one-element list [i] when
\* inner evaluates to Integer i, and to the same list payload marked strong when
\* inner evaluates to a list of either strength; so {5} + 1 is Integer 6
\* (whether {5} is read as a list literal or as a wrapper) and {2d6} + 1 is a
\* list of two elements.
C11_StrongListWrapper ==
    /\ [][(pc = "eval" /\ todo # <<>> /\ Head(todo).f = "strong") =>
            /\ Len(vals') = Len(vals)
            /\ IF Top.kind = "Integer"
               THEN vals'[Len(vals')] =
                        [kind |-> "List", strong |-> FALSE,
                         inner |-> [kind |-> "List", vec |-> <<Top.i>>]]
               ELSE vals'[Len(vals')] =
                        [kind |-> "List", strong |-> TRUE, inner |-> Top.inner]]_vars
    /\ [](pc = "done" =>
            /\ expr = Ex_brace_5_plus_1 => result = Ok(ValueInteger(6))
            /\ expr = Ex_strong_5_plus_1 => result = Ok(ValueInteger(6))
            /\ expr = Ex_strong_2d6_plus_1 =>
                  result.kind = "Ok" /\ result.v.kind = "List" /\ Len(result.v.vec) = 2)

C11_Witness ==
    /\ pc = "done" /\ expr = Ex_strong_5_plus_1
    /\ last.op = "Addition" /\ last.left = List(FALSE, InnerVec(<<5>>))
    /\ result = Ok(ValueInteger(6))

\* The elements a literal list or range stands for.
LiteralElements(lit) == IF lit.kind = "List" THEN lit.items ELSE RangeVec(lit.range)
\* A literal list or range that has a sum: its enumeration ends and the build
\* can form the sum.
LiteralHasSum(lit) ==
    /\ lit.kind \in {"List", "Range"}
    /\ lit.kind = "Range" => ~RangeDiverges(lit.range)
    /\ ~(overflow_checks /\ SumOverflows(LiteralElements(lit)))

\* C12: Literal::Int(n) evaluates to Integer n, Literal::List to a weak
\* materialized list of the same elements, Literal::Range to a weak list kept
\* as the range; with an integer on the other side of an arithmetic or
\* comparison operator a literal list or range contributes its sum and the
\* result is an Integer: {1,2,3} + 1 is Integer 7 and [1,5,2] + 1 is Integer 10.
C12_LiteralsWeak ==
    /\ [][(pc = "eval" /\ todo # <<>> /\ Head(todo).f = "visit"
             /\ Head(todo).e.kind \in {"Int", "List", "Range"}) =>
            /\ Len(vals') = Len(vals) + 1
            /\ LET lit == Head(todo).e
                   v == vals'[Len(vals')]
               IN CASE lit.kind = "Int" -> v = [kind |-> "Integer", i |-> lit.n]
                    [] lit.kind = "List" ->
                          v = [kind |-> "List", strong |-> FALSE,
                               inner |-> [kind |-> "List", vec |-> lit.items]]
                    [] lit.kind = "Range" ->
                          v = [kind |-> "List", strong |-> FALSE,
                               inner |-> [kind |-> "Range", range |-> lit.range]]]_vars
    /\ [](pc = "done" =>
            /\ expr = Ex_list_plus_1 => result = Ok(ValueInteger(7))
            /\ expr = Ex_range_plus_1 => result = Ok(ValueInteger(10))
            /\ (expr.kind = "BinaryOp" /\ expr.op \in ArithCmpOps) =>
                  /\ (LiteralHasSum(expr.left) /\ expr.right.kind = "Int") =>
                        result = Ok(ValueInteger(Expected(expr.op,
                                     Wrap(MathSum(LiteralElements(expr.left))), expr.right.n)))
                  /\ (expr.left.kind = "Int" /\ LiteralHasSum(expr.right)) =>
                        result = Ok(ValueInteger(Expected(expr.op, expr.left.n,
                                     Wrap(MathSum(LiteralElements(expr.right)))))))

C12_Witness ==
    /\ pc = "done" /\ expr = Ex_range_plus_1
    /\ last.left = List(FALSE, InnerRange(RangeLiteral(1, 5, Some(2))))
    /\ result = Ok(ValueInteger(10))

\* The mathematical result of +, - and *, and what it is to be reduced to: the
\* one integer of the signed range that differs from it by a multiple of 2^Bits.
Mathematical(op, a, b) ==
    CASE op = "Multiplication" -> a * b
      [] op = "Addition" -> a + b
      [] op = "Subtraction" -> a - b
ReducedTo(x, m) == x \in Int64 /\ (x - m) % Modulus = 0

\* C13: +, - and * on any two integers, scalar, broadcast or zipped, return the
\* mathematical result reduced modulo 2^Bits into the signed range; overflow is
\* never an error and never traps.
C13_ArithmeticWraps ==
    (last.op \in ArithOps) =>
        LET l == last.left
            r == last.right
        IN /\ (l.kind = "Integer" /\ r.kind = "Integer") =>
                 /\ last.out.kind = "Ok" /\ last.out.v.kind = "Integer"
                 /\ ReducedTo(last.out.v.i, Mathematical(last.op, l.i, r.i))
           /\ (l.kind = "Integer" /\ IsStrong(r) /\ HasLength(r)) =>
                 /\ last.out.kind = "Ok" /\ last.out.v.kind = "List"
                 /\ LET vec == into_vec(r.inner)
                        res == into_vec(last.out.v.inner)
                    IN /\ Len(res) = Len(vec)
                       /\ \A i \in DOMAIN vec :
                             ReducedTo(res[i], Mathematical(last.op, l.i, vec[i]))
           /\ (IsStrong(l) /\ HasLength(l) /\ r.kind = "Integer") =>
                 /\ last.out.kind = "Ok" /\ last.out.v.kind = "List"
                 /\ LET vec == into_vec(l.inner)
                        res == into_vec(last.out.v.inner)
                    IN /\ Len(res) = Len(vec)
                       /\ \A i \in DOMAIN vec :
                             ReducedTo(res[i], Mathematical(last.op, vec[i], r.i))
           /\ (IsStrong(l) /\ HasLength(l) /\ IsStrong(r) /\ HasLength(r)
                 /\ Len(into_vec(l.inner)) = Len(into_vec(r.inner))) =>
                 /\ last.out.kind = "Ok" /\ last.out.v.kind = "List"
                 /\ LET lvec == into_vec(l.inner)
                        rvec == into_vec(r.inner)
                        res == into_vec(last.out.v.inner)
                    IN /\ Len(res) = Len(lvec)
                       /\ \A i \in DOMAIN lvec :
                             ReducedTo(res[i], Mathematical(last.op, lvec[i], rvec[i]))

C13_Witness ==
    /\ pc = "done" /\ last.op = "Addition"
    /\ last.left = Integer(IntMax)
    /\ last.right = List(TRUE, InnerVec(<<IntMax, IntMin>>))
    /\ result = Ok(ValueList(<<-2, -1>>))

\* Paths name the nodes of the tree: 0 the left child (or a wrapper's only
\* child), 1 the right child. a comes before b when the evaluation of a is over
\* before that of b: a is below b, or a branches to the left of b.
IsPrefix(a, b) == Len(a) <= Len(b) /\ SubSeq(b, 1, Len(a)) = a
ComesBefore(a, b) ==
    /\ a # b
    /\ \/ IsPrefix(b, a)
       \/ \E i \in 1 .. Len(a) :
             /\ i <= Len(b)
             /\ SubSeq(a, 1, i - 1) = SubSeq(b, 1, i - 1)
             /\ a[i] < b[i]

\* C14: evaluation is fail-fast and left before right. An Err result is the
\* error of the operator that failed first and of nothing evaluated after it:
\* every draw made belongs to a node whose evaluation was over before that
\* operator (so a right sibling of a failed left child, and every operator
\* above, consumed none), a child's error is returned rather than the error
\* the operator above would raise itself, and an Err carries no value.
C14_FailFast ==
    (pc = "done" /\ result.kind = "Err") =>
        /\ result = last.out
        /\ DOMAIN result = {"kind", "e"} /\ vals = <<>>
        /\ \A i \in DOMAIN draws : ComesBefore(draws[i].at, last.at)
        /\ (expr.kind = "BinaryOp" /\ expr.left = FailTooMany) =>
              /\ result = Err(KeepTooMany(2, 5))
              /\ draws = <<>>
        /\ (expr.kind = "BinaryOp" /\ expr.left = FailListExpected) =>
              /\ result = Err(ListExpected)
              /\ draws = <<>>
        /\ (expr.kind = "BinaryOp" /\ expr.left \in {LitInt(3), LitList(<<1, 2>>)}
              /\ expr.right = FailTooMany) =>
              result = Err(KeepTooMany(2, 5))
        /\ (expr.kind = "BinaryOp" /\ expr.left = Roll(2, LitInt(2))
              /\ expr.right = FailTooMany) =>
              /\ result = Err(KeepTooMany(2, 5))
              /\ Len(draws) = 2 /\ \A i \in DOMAIN draws : draws[i].at = <<0>>

C14_Witness ==
    /\ pc = "done"
    /\ expr = BinaryOp(FailTooMany, "KeepHighest", FailListExpected)
    /\ result = Err(KeepTooMany(2, 5))
    /\ last.at = <<0>> /\ draws = <<>>

\* The error ends the evaluation, and the operator drew nothing.
FailsWith(e) ==
    /\ last.out = Err(e)
    /\ pc = "done" /\ result = Err(e)
    /\ \A i \in DOMAIN draws : draws[i].at # last.at

\* C15: a dice roll whose left operand is a list (weak or strong, of one element
\* too) fails with IntegerExpected and samples nothing; a keep/drop whose left
\* operand is an Integer fails with ListExpected, whatever its right operand; a
\* keep/drop whose right operand is a list fails with IntegerExpected.
C15_TypeAssertions ==
    /\ (last.op = "DiceRoll" /\ IsList(last.left)) => FailsWith(IntegerExpected)
    /\ (last.op \in KeepDropOps /\ last.left.kind = "Integer") => FailsWith(ListExpected)
    /\ (last.op \in KeepDropOps /\ IsList(last.left) /\ IsList(last.right)) =>
          FailsWith(IntegerExpected)

\* The same with the keep/drop's left list restricted to one that has a length.
TypeAssertionsOnFiniteLists ==
    /\ (last.op = "DiceRoll" /\ IsList(last.left)) => FailsWith(IntegerExpected)
    /\ (last.op \in KeepDropOps /\ last.left.kind = "Integer") => FailsWith(ListExpected)
    /\ (last.op \in KeepDropOps /\ HasLength(last.left) /\ IsList(last.right)) =>
          FailsWith(IntegerExpected)

\* C16: eval_with is a function of the Expr and of the sequence of draws of the
\* random source: the evaluator run as a function over the draws recorded gives
\* the result eval_with gave and reads exactly those draws, none left, so two
\* evaluations of one Expr from sources in the same state draw the same values,
\* return the same Ok or the same Err and leave the sources in the same state.
C16_Determinism ==
    pc = "done" => EvalReplay(expr, draws, overflow_checks) = Replayed(result, <<>>)

C16_Witness ==
    /\ pc = "done" /\ expr = Ex_4d6kh3
    /\ Len(draws) = 5 /\ draws[5].kind = "shuffle"
    /\ result = Ok(ValueList(<<6, 5, 6>>))

\* The node of the tree e that the path p names.
RECURSIVE NodeAt(_, _)
NodeAt(e, p) ==
    IF p = <<>> THEN e
    ELSE IF e.kind = "BinaryOp"
         THEN NodeAt(IF p[1] = 0 THEN e.left ELSE e.right, Tail(p))
         ELSE NodeAt(e.inner, Tail(p))

\* A list sorted as the variant asks and cut to its first k elements.
SortedFront(vec, op, k) ==
    SubSeq(IF op \in {"KeepHighest", "DropLowest"}
           THEN SortSeq(vec, LAMBDA a, b : a > b)
           ELSE SortSeq(vec, LAMBDA a, b : a < b), 1, k)

\* C17: draws are consumed in a fixed order. Depth-first: the draws of a node
\* never precede those of a node evaluated before it, so all draws of a left
\* child precede those of its right sibling and an operator's own draws follow
\* those of both children. Every draw is a sample of a dice roll or the shuffle
\* of a keep/drop: literals, arithmetic and comparisons draw nothing. A roll of
\* c dice draws its c samples last, in the order of its result. A keep/drop
\* draws one shuffle, of the list already sorted and truncated; one that fails
\* its type or count check draws nothing.
C17_DrawOrder ==
    /\ \A i \in DOMAIN draws : \A j \in DOMAIN draws :
          i < j => \/ draws[i].at = draws[j].at
                   \/ ComesBefore(draws[i].at, draws[j].at)
    /\ \A i \in DOMAIN draws :
          LET node == NodeAt(expr, draws[i].at)
          IN /\ node.kind = "BinaryOp"
             /\ draws[i].kind = "sample" => node.op = "DiceRoll"
             /\ draws[i].kind = "shuffle" => node.op \in KeepDropOps
             /\ draws[i].kind \in {"sample", "shuffle"}
    /\ (last.op = "DiceRoll" /\ last.out.kind = "Ok") =>
          LET vec == into_vec(last.out.v.inner)
              n == Len(draws) - Len(vec)
          IN /\ n >= 0
             /\ \A k \in DOMAIN vec :
                   draws[n + k] = [at |-> last.at, kind |-> "sample", v |-> <<vec[k]>>]
             /\ \A i \in 1 .. n : draws[i].at # last.at
    /\ (last.op \in KeepDropOps /\ last.out.kind = "Ok") =>
          LET k == IF IsKeep(last.op) THEN last.right.i
                   ELSE Len(KeepDropInput) - last.right.i
              front == SortedFront(KeepDropInput, last.op, k)
              d == draws[Len(draws)]
          IN /\ draws # <<>>
             /\ d.at = last.at /\ d.kind = "shuffle"
             /\ d.v \in Permutations(1 .. k)
             /\ KeepDropOutput = [i \in 1 .. k |-> front[d.v[i]]]
             /\ \A i \in 1 .. Len(draws) - 1 : draws[i].at # last.at
    /\ (last.op \in KeepDropOps /\ last.out.kind = "Err") =>
          \A i \in DOMAIN draws : draws[i].at # last.at

C17_Witness ==
    /\ pc = "done"
    /\ expr = Roll(2, BinaryOp(LitList(<<1, 2>>), "DropLowest", LitInt(0)))
    /\ Len(draws) = 3
    /\ draws[1] = [at |-> <<1>>, kind |-> "shuffle", v |-> <<2, 1>>]
    /\ draws[2].at = <<>> /\ draws[3].at = <<>>
    /\ result = Ok(ValueList(<<2, 1>>))

\* C18: the evaluation of every finite Expr terminates, with a value or an
\* error, range literals of any start, end and step included, at top level,
\* under arithmetic, under keep/drop or as the faces of a roll.
C18_EvalTerminates ==
    pc = "done" => result.kind # "Diverge"

\* An expression that holds a range literal with step 0.
RECURSIVE HasZeroStep(_)
HasZeroStep(e) ==
    CASE e.kind = "Range" -> e.range.step = Some(0)
      [] e.kind = "BinaryOp" -> HasZeroStep(e.left) \/ HasZeroStep(e.right)
      [] e.kind = "StrongList" -> HasZeroStep(e.inner)
      [] OTHER -> FALSE

\* Only an expression with a range literal of step 0 fails to terminate.
EvalTerminatesWithoutZeroStep ==
    (pc = "done" /\ ~HasZeroStep(expr)) => result.kind # "Diverge"

\* C19: the list returned by kh, kl, dh or dl has the strong/weak flag of its
\* left operand, so (2d6 kh 1) + 1 is an Integer and ({2d6} kh 1) + 1 is a list
\* of one element.
C19_KeepDropStrength ==
    /\ (last.op \in KeepDropOps /\ last.out.kind = "Ok") =>
          /\ last.out.v.kind = "List"
          /\ last.out.v.strong = last.left.strong
    /\ (pc = "done" /\ expr = Ex_kh_plus_1) =>
          /\ result.kind = "Ok" /\ result.v.kind = "Integer"
          /\ result.v.i \in 2 .. 7
    /\ (pc = "done" /\ expr = Ex_strong_kh_plus_1) =>
          /\ result.kind = "Ok" /\ result.v.kind = "List"
          /\ Len(result.v.vec) = 1 /\ result.v.vec[1] \in 2 .. 7

C19_Witness ==
    /\ pc = "done" /\ expr = Ex_strong_kh_plus_1
    /\ IsStrong(last.left) /\ last.op = "Addition"
    /\ result = Ok(ValueList(<<7>>))

----------------------------------------------------------------------------
(* Properties of the parser *)

\* The precedence table as documented.
TablePrecedence(op) ==
    IF op = "DiceRoll" THEN 150
    ELSE IF op \in {"KeepHighest", "KeepLowest", "DropHighest", "DropLowest"} THEN 130
    ELSE IF op = "Multiplication" THEN 90
    ELSE IF op \in {"Addition", "Subtraction"} THEN 70
    ELSE 50

\* A weak list of finite length: it collapses to its sum under arithmetic and
\* comparison.
Collapses(v) == v.kind = "Integer" \/ (v.kind = "List" /\ ~v.strong /\ HasLength(v))
SumLeavesRange(v) == v.kind = "List" /\ ~v.strong /\ HasLength(v) /\ SumOverflows(into_vec(v.inner))

\* C25: the collapse of a weak list or range to its sum wraps like +, - and *:
\* when the mathematical sum of an operand of arithmetic or comparison is
\* outside the signed range, the operand counts as its sum modulo 2^Bits, and
\* the operation neither traps nor returns an error.
C25_SumWraps ==
    (last.op \in ArithCmpOps /\ Collapses(last.left) /\ Collapses(last.right)
        /\ (SumLeavesRange(last.left) \/ SumLeavesRange(last.right))) =>
        last.out = Ok(Integer(Expected(last.op, Reduced(last.left), Reduced(last.right))))

\* The same in a build without overflow checks.
SumWrapsWithoutChecks == ~overflow_checks => C25_SumWraps

SameMultiset(a, b) == \A v \in Elems(a) \cup Elems(b) : Count(a, v) = Count(b, v)
\* The operator that removes what op retains: kh n and dl (len - n), kl n and
\* dh (len - n).
Complement(op) ==
    CASE op = "KeepHighest" -> "DropLowest"
      [] op = "DropLowest" -> "KeepHighest"
      [] op = "KeepLowest" -> "DropHighest"
      [] op = "DropHighest" -> "KeepLowest"
\* What eval_keep_drop_op retains of vec for op and count n, before the shuffle.
Retains(op, vec, n) == KeepDropSelect(vec, n, IsKeep(op), IsHighest(op))

\* C26: keep and drop are complementary. For a list L of length len and a
\* count n with 0 <= n <= len, L kh n and L dl (len - n) return the same
\* multiset, L kl n and L dh (len - n) return the same multiset, and what
\* kh n returns together with what dh n returns is L as a multiset.
C26_KeepDropComplementary ==
    (KeepDropOnList /\ 0 <= last.right.i /\ last.right.i <= Len(KeepDropInput)) =>
        /\ last.out.kind = "Ok" /\ last.out.v.kind = "List"
        /\ SameMultiset(KeepDropOutput, Retains(last.op, KeepDropInput, last.right.i))
        /\ SameMultiset(KeepDropOutput,
                        Retains(Complement(last.op), KeepDropInput,
                                Len(KeepDropInput) - last.right.i))
        /\ (last.op = "KeepHighest") =>
              SameMultiset(KeepDropOutput \o Retains("DropHighest", KeepDropInput, last.right.i),
                           KeepDropInput)
        /\ (last.op = "DropHighest") =>
              SameMultiset(KeepDropOutput \o Retains("KeepHighest", KeepDropInput, last.right.i),
                           KeepDropInput)

\* 3d3 kl 1 of three different faces: one value is returned, and it is also
\* what the drop of the two highest retains.
C26_Witness ==
    /\ pc = "done" /\ last.op = "KeepLowest" /\ last.out.kind = "Ok"
    /\ KeepDropOnList /\ last.right.i = 1
    /\ Cardinality(Elems(KeepDropInput)) = 3
    /\ KeepDropOutput = <<1>>
    /\ Retains("DropHighest", KeepDropInput, 2) = <<1>>

\* The input is a op1 b op2 c.
TwoOperators == Len(pinput.atoms) = 3 /\ Len(pinput.ops) = 2

\* The tree that the table gives a op1 b op2 c.
TableShape(a, op1, b, op2, c) ==
    IF TablePrecedence(op1) > TablePrecedence(op2)
          \/ (TablePrecedence(op1) = TablePrecedence(op2) /\ op1 # "DiceRoll")
    THEN BinaryOp(BinaryOp(a, op1, b), op2, c)
    ELSE BinaryOp(a, op1, BinaryOp(b, op2, c))
InputShape ==
    TableShape(LitInt(pinput.atoms[1]), pinput.ops[1], LitInt(pinput.atoms[2]),
               pinput.ops[2], LitInt(pinput.atoms[3]))

\* C20: `a op1 b op2 c` parses as (a op1 b) op2 c when prec(op1) > prec(op2),
\* or when the precedences are equal and the operators are left-associative,
\* and as a op1 (b op2 c) when prec(op1) < prec(op2) or when both are the dice
\* roll; the precedences are d = 150, kh/kl/dh/dl = 130, * = 90, +/- = 70 and
\* the six comparisons = 50. "2d6 + 3" parses to Add(Dice(2, 6), 3) and
\* formats as "((2 d 6) + 3)".
C20_ParseShape ==
    /\ (ppc = "done" /\ TwoOperators) => presult = Ok(InputShape)
    /\ (ppc = "done" /\ pinput = In_2d6_plus_3) =>
          /\ presult = Ok(BinaryOp(BinaryOp(LitInt(2), "DiceRoll", LitInt(6)),
                                   "Addition", LitInt(3)))
          /\ format_inline(presult.v) = "((2 d 6) + 3)"
    /\ \A op \in BinaryOperator : precedence(op) = TablePrecedence(op)

\* The same for the inputs in which no dh or dl stands before an atom in
\* parentheses.
ParseShapeWithoutDropBeforeParen ==
    /\ (ppc = "done" /\ TwoOperators
          /\ ~(pinput.paren /\ \E i \in 1 .. 2 : pinput.ops[i] \in {"DropHighest", "DropLowest"})) =>
          presult = Ok(InputShape)
    /\ (ppc = "done" /\ pinput = In_2d6_plus_3) =>
          /\ presult = Ok(BinaryOp(BinaryOp(LitInt(2), "DiceRoll", LitInt(6)),
                                   "Addition", LitInt(3)))
          /\ format_inline(presult.v) = "((2 d 6) + 3)"
    /\ \A op \in BinaryOperator : precedence(op) = TablePrecedence(op)

\* The input is one integer literal: an optional minus sign, then digits.
IsLiteralInput ==
    \/ Len(pinput.toks) = 1 /\ pinput.toks[1].t = "lit"
    \/ Len(pinput.toks) = 2 /\ pinput.toks[1] = ChTok("-") /\ pinput.toks[2].t = "lit"
LiteralDigits == pinput.toks[Len(pinput.toks)].digits
\* The number that the literal writes.
LiteralNumber ==
    IF Len(pinput.toks) = 2 THEN 0 - DigitsValue(LiteralDigits) ELSE DigitsValue(LiteralDigits)
HasOverflowError(res) ==
    res.kind = "Err" /\ \E i \in DOMAIN res.e : res.e[i].kind = "illegal integer literal"
LiteralBounds ==
    IF LiteralNumber \in Int64 THEN presult = Ok(LitInt(LiteralNumber))
    ELSE HasOverflowError(presult)

\* C21: an integer literal, an optional '-' then decimal digits, parses to its
\* exact value iff the value is in the signed range, and fails with an
\* overflow error outside it; the largest and the smallest value succeed, the
\* next above and the next below fail.
C21_IntegerBounds == (ppc = "done" /\ IsLiteralInput) => LiteralBounds

\* The same for the literals that do not start with a needless zero.
IntegerBoundsWithoutLeadingZero ==
    (ppc = "done" /\ IsLiteralInput /\ (LiteralDigits[1] # 0 \/ Len(LiteralDigits) = 1)) =>
        LiteralBounds
IntegerBoundsExamples ==
    (ppc = "done" /\ IsLiteralInput) =>
        /\ pinput.toks = IntTok(IntMax) => presult = Ok(LitInt(IntMax))
        /\ pinput.toks = IntTok(IntMin) => presult = Ok(LitInt(IntMin))
        /\ pinput.toks = IntTok(IntMax + 1) => HasOverflowError(presult)
        /\ pinput.toks = IntTok(IntMin - 1) => HasOverflowError(presult)

AllIntegers(exprs) == exprs # <<>> /\ \A i \in DOMAIN exprs : exprs[i].kind = "Int"
In_brace_5 == TextInput(Chars(<<"{">>) \o IntTok(5) \o Chars(<<"}">>))

\* C22: a brace list whose inner expressions are all integer literals, and at
\* least one, is Literal::List of those integers ({5} is a List of one element,
\* not a StrongList); otherwise one inner expression makes StrongList of it;
\* otherwise (none, or several not all integers) one error is emitted, the node
\* is an empty List and parse returns Err.
C22_BraceList ==
    /\ \A i \in DOMAIN pbraces :
          LET b == pbraces[i]
          IN IF AllIntegers(b.items)
             THEN /\ b.node = LitList([j \in DOMAIN b.items |-> b.items[j].n])
                  /\ b.emitted = <<>>
             ELSE IF Len(b.items) = 1
             THEN b.node = StrongList(b.items[1]) /\ b.emitted = <<>>
             ELSE b.node = LitList(<<>>) /\ b.emitted = <<BraceContents(b.at)>>
    /\ (ppc = "done" /\ \E i \in DOMAIN pbraces : pbraces[i].emitted # <<>>) =>
          presult.kind = "Err"
    /\ (ppc = "done" /\ pinput = In_brace_5) => presult = Ok(LitList(<<5>>))

\* {1d6, 5}: two inner expressions, not all integers.
C22_Witness ==
    /\ ppc = "done" /\ Len(pbraces) = 1
    /\ Len(pbraces[1].items) = 2 /\ pbraces[1].items[1].kind = "BinaryOp"
    /\ pbraces[1].node = LitList(<<>>)
    /\ presult = Err(<<BraceContents(1)>>)

\* A minus sign that starts a literal: it stands before digits and not after
\* the end of an atom.
IsSign(toks, i) ==
    /\ 1 <= i /\ i < Len(toks)
    /\ toks[i] = ChTok("-") /\ toks[i + 1].t = "lit"
    /\ \/ i = 1
       \/ toks[i - 1].t = "ch" /\ toks[i - 1].c \notin {")", "}", "]"}
\* The literals of a text that are not in the signed range, by the place of
\* their digits.
OverflowingLiterals(toks) ==
    { i \in DOMAIN toks :
        /\ toks[i].t = "lit"
        /\ LET signed == IF i > 1 THEN IsSign(toks, i - 1) ELSE FALSE
               v == DigitsValue(toks[i].digits)
           IN (IF signed THEN 0 - v ELSE v) \notin Int64 }
OverflowErrors(errs) == SelectSeq(errs, LAMBDA e : e.kind = "illegal integer literal")
In_brace_99_5 ==
    TextInput(Chars(<<"{">>) \o <<LitTok(<<9, 9>>)>> \o Chars(<<",">>) \o IntTok(5)
                \o Chars(<<"}">>))

\* C23: a literal out of range emits one error at its span and yields 0, so
\* that parsing goes on: an input that is well-formed but for k such literals
\* makes parse return Err with one error for each of them, and parse never
\* returns Ok with a 0 in the place of such a literal.
C23_OverflowRecovery ==
    /\ (ppc = "done" /\ presult.kind = "Ok") => OverflowingLiterals(pinput.toks) = {}
    /\ (ppc = "done" /\ presult.kind = "Err"
          /\ \A i \in DOMAIN presult.e : presult.e[i] # Unexpected) =>
          LET os == OverflowErrors(presult.e)
          IN /\ Len(os) = Cardinality(OverflowingLiterals(pinput.toks))
             /\ { os[i].at[2] : i \in DOMAIN os } = OverflowingLiterals(pinput.toks)
             /\ \A i \in DOMAIN os :
                   os[i].at[1] = (IF IsSign(pinput.toks, os[i].at[2] - 1)
                                  THEN os[i].at[2] - 1 ELSE os[i].at[2])
             /\ \A i \in DOMAIN os, j \in DOMAIN os : i < j => os[i].at[2] < os[j].at[2]
    /\ (ppc = "done" /\ pinput = In_brace_99_5) =>
          /\ Len(pbraces) = 1
          /\ pbraces[1].items = <<LitInt(0), LitInt(5)>>

\* 99 d -99 kh 99: three literals out of range, three errors.
C23_Witness ==
    /\ ppc = "done"
    /\ Cardinality(OverflowingLiterals(pinput.toks)) = 3
    /\ pinput.toks[2] = ChTok("d")
    /\ presult = Err(<<IllegalInteger(<<1, 1>>), IllegalInteger(<<3, 4>>),
                       IllegalInteger(<<7, 7>>)>>)

In_1_plus == ParseInput(<<1>>, FALSE, <<"Addition">>)
In_1_paren == TextInput(IntTok(1) \o Chars(<<")">>))

\* C24: parse returns Ok only when the whole input was consumed and no error
\* was emitted; an input with characters left over, or one that stops in the
\* middle of an expression as "1+", returns Err; and an Err carries at least
\* one error.
C24_OkOrErrors ==
    ppc = "done" =>
        /\ presult.kind \in {"Ok", "Err"}
        /\ presult.kind = "Ok" => ptoks = <<>> /\ perrs = <<>>
        /\ presult.kind = "Err" => presult.e # <<>>
        /\ ptoks # <<>> => presult.kind = "Err"
        /\ (pinput.ops # <<>> /\ Len(pinput.atoms) = Len(pinput.ops)) => presult.kind = "Err"
        /\ pinput = In_1_plus => presult.kind = "Err"
        /\ pinput = In_1_paren => presult.kind = "Err"

\* 99 + : the literal emitted an error, and the text left over another.
C24_Witness ==
    /\ ppc = "done" /\ ptoks # <<>>
    /\ presult = Err(<<IllegalInteger(<<1, 1>>), Unexpected>>)

============================================================================
